---- MODULE Spec2Model ----
(***************************************************************************)
(* A model of the loop-data aggregation layer of gjr80/weewx_utilities     *)
(* (src/mqtt_dashboard/mqtt_utility.py): ScalarBuffer, VectorBuffer,       *)
(* Buffer and CachedPacket.                                                *)
(*                                                                         *)
(* Numbers are integers.  Python's None is the integer None for numeric    *)
(* fields and the string NoUnits for a unit system.  An attribute that a   *)
(* constructor creates only on request (history, the sums) is present in   *)
(* an object exactly when its name is in the object's attrs set.           *)
(*                                                                         *)
(* Each component has its own specification (SpecScalar, SpecVector,       *)
(* SpecCache, SpecBuffer); a specification leaves the variables of the     *)
(* other components at their idle values.                                  *)
(***************************************************************************)
EXTENDS Integers, Sequences, FiniteSets, TLC

VARIABLES
    sb,        \* the ScalarBuffer object under test
    sbFlags,   \* the (hilo, history, sum) flags its caller passes for it
    sbLog,     \* history variable: samples folded into hilo since sbBase
    sbBase,    \* history variable: hilo fields at construction / last day_reset
    sbCalls,   \* history variable: the seed of sb and the calls made on it (SpecSums)
    vb,        \* the VectorBuffer object under test
    vbFlags,   \* the (hilo, history, sum) flags its caller passes for it
    vbLog,     \* history variable: the samples added to vb (SpecVecAvg)
    cache,     \* CachedPacket.cache: field name -> [value, ts]
    unit_system, \* CachedPacket.unit_system
    updates,   \* history variable: field -> the last update that carried it non-null
    buffer,    \* Buffer (a dict): observation name -> aggregator object
    windrun,   \* Buffer.windrun, in thousandths of the run unit
    last_windSpeed_ts, \* Buffer.last_windSpeed_ts
    primary_unit_system, \* Buffer.primary_unit_system
    bufLog,    \* history variable: the day summary the Buffer was seeded from,
               \* the non-null samples fed per observation since, and the
               \* speed of the previous windSpeed sample
    trend,     \* the last calc_trend call: its arguments and its outcome
    pub,       \* the MQTTPublish.publish call in progress or just ended
    queue,     \* the Queue.Queue between MQTTRealtime and its thread
    clock,     \* the wall clock, time.time(), in seconds
    thread,    \* MQTTRealtimeThread: its position in run() and its attributes
    thLog,     \* history variable: what the service and the thread have done
    alarm,     \* AlarmMulti: last_msg_ts per expression, and the alarms launched
    wu,        \* MQTTWUThread: last, last_call_ts, and the API calls made
    component, \* which component this behaviour exercises
    call,      \* history variable: the operation performed by the last step
    steps      \* number of operations performed

vars == <<sb, sbFlags, sbLog, sbBase, sbCalls, vb, vbFlags, vbLog, cache, unit_system, updates,
          buffer, windrun, last_windSpeed_ts, primary_unit_system, bufLog,
          trend, pub, queue, clock, thread, thLog, alarm, wu, component, call, steps>>

scalarVars == <<sb, sbFlags, sbLog, sbBase, sbCalls>>
vectorVars == <<vb, vbFlags, vbLog>>
cacheVars  == <<cache, unit_system, updates>>
bufferVars == <<buffer, windrun, last_windSpeed_ts, primary_unit_system, bufLog>>
trendVars  == <<trend>>
pubVars    == <<pub>>
threadVars == <<queue, clock, thread, thLog>>
serviceVars == <<alarm, wu>>

-----------------------------------------------------------------------------
(* Bounds of the model *)

\* operations performed in one behaviour
MaxSteps == 3
\* timestamps are multiples of MAX_AGE/2 up to MaxTick * MAX_AGE/2
MaxTick == 2
\* CachedPacket.update calls in one behaviour
MaxUpdates == 2
\* Buffer.add_packet calls in one behaviour
MaxPackets == 2

\* Python's None in a numeric position
None == -1
\* Buffer.MAX_AGE
MAX_AGE == 600

\* sample values of a unit-less scalar observation
Values == {1, 2, 3}
\* timestamps: 0, 300, 600, ... straddle the MAX_AGE window exactly
TimeStamps == {k * (MAX_AGE \div 2) : k \in 0..MaxTick}
Flags == [hilo : BOOLEAN, history : BOOLEAN, sum : BOOLEAN]

\* the operation recorded by a step
Call(op, val, dir, ts) == [op |-> op, val |-> val, dir |-> dir, ts |-> ts]
NoCall == Call("init", None, None, None)

-----------------------------------------------------------------------------
(* Day summary (accumulator) fields used to seed an aggregator *)

NoStats == [present |-> FALSE]
ScalarStats(min, mintime, max, maxtime, sum) ==
    [present |-> TRUE, min |-> min, mintime |-> mintime,
     max |-> max, maxtime |-> maxtime, sum |-> sum]

\* the seeds tried: no summary, an empty day, a day with data
ScalarSeeds ==
    {NoStats,
     ScalarStats(None, None, None, None, 0),
     ScalarStats(2, 300, 2, 300, 2)}

-----------------------------------------------------------------------------
(* class ScalarBuffer *)

\* ObsTuple(value, ts)
ObsTuple(value, ts) == [value |-> value, ts |-> ts]

\* mutant of SelectKeep: keeps the entries exactly MAX_AGE old (>= for >)
RECURSIVE SelectKeep_Inclusive(_, _)
SelectKeep_Inclusive(s, oldest_ts) ==
    IF s = <<>> THEN <<>>
    ELSE IF Head(s).ts >= oldest_ts
         THEN <<Head(s)>> \o SelectKeep_Inclusive(Tail(s), oldest_ts)
         ELSE SelectKeep_Inclusive(Tail(s), oldest_ts)

\* [s for s in self.history if s.ts > oldest_ts]
RECURSIVE SelectKeep(_, _)
SelectKeep(s, oldest_ts) ==
    IF s = <<>> THEN <<>>
    ELSE IF Head(s).ts > oldest_ts
         THEN <<Head(s)>> \o SelectKeep(Tail(s), oldest_ts)
         ELSE SelectKeep(Tail(s), oldest_ts)

\* min([a.ts for a in self.history if a.ts is not None])
MinTs(s) ==
    CHOOSE m \in {s[i].ts : i \in 1..Len(s)} :
        \A i \in 1..Len(s) : m <= s[i].ts

ScalarBufferInit(stats, units, history, sum) ==
    [units       |-> units,
     last        |-> None,
     lasttime    |-> None,
     day_min     |-> IF stats.present THEN stats.min ELSE None,
     day_mintime |-> IF stats.present THEN stats.mintime ELSE None,
     day_max     |-> IF stats.present THEN stats.max ELSE None,
     day_maxtime |-> IF stats.present THEN stats.maxtime ELSE None,
     history      |-> <<>>,
     history_full |-> FALSE,
     day_sum      |-> IF sum /\ stats.present THEN stats.sum ELSE 0,
     nineam_sum   |-> 0,
     interval_sum |-> 0,
     attrs |-> (IF history THEN {"history", "history_full"} ELSE {})
               \cup (IF sum THEN {"day_sum", "nineam_sum", "interval_sum"}
                     ELSE {})]

\* mutant of ScalarTrimHistory: the flag is computed after the list is trimmed
ScalarTrimHistory_AfterTrim(b, ts) ==
    LET oldest_ts == ts - MAX_AGE
    IN  [b EXCEPT !.history_full =
                      (MinTs(SelectKeep(b.history, oldest_ts)) <= oldest_ts),
                  !.history = SelectKeep(b.history, oldest_ts)]

\* ScalarBuffer.trim_history: the flag is computed before the list is trimmed
ScalarTrimHistory(b, ts) ==
    LET oldest_ts == ts - MAX_AGE
    IN  [b EXCEPT !.history_full = (MinTs(b.history) <= oldest_ts),
                  !.history = SelectKeep(b.history, oldest_ts)]

\* mutant of ScalarAddLast: every sample becomes "last", in any order
ScalarAddLast_Always(b, val, ts) ==
    [b EXCEPT !.last = val, !.lasttime = ts]

ScalarAddLast(b, val, ts) ==
    IF b.lasttime = None \/ ts >= b.lasttime
    THEN [b EXCEPT !.last = val, !.lasttime = ts]
    ELSE b

\* mutant of ScalarAddHilo: non-strict comparisons, the latest sample that
\* attains an extreme takes its timestamp
ScalarAddHilo_NonStrict(b, val, ts) ==
    LET b1 == IF b.day_min = None \/ val <= b.day_min
              THEN [b EXCEPT !.day_min = val, !.day_mintime = ts]
              ELSE b
    IN  IF b1.day_max = None \/ val >= b1.day_max
        THEN [b1 EXCEPT !.day_max = val, !.day_maxtime = ts]
        ELSE b1

ScalarAddHilo(b, val, ts) ==
    LET b1 == IF b.day_min = None \/ val < b.day_min
              THEN [b EXCEPT !.day_min = val, !.day_mintime = ts]
              ELSE b
    IN  IF b1.day_max = None \/ val > b1.day_max
        THEN [b1 EXCEPT !.day_max = val, !.day_maxtime = ts]
        ELSE b1

ScalarAddHistory(b, val, ts) ==
    ScalarTrimHistory([b EXCEPT !.history = Append(@, ObsTuple(val, ts))], ts)

ScalarAddSum(b, val) ==
    [b EXCEPT !.day_sum = @ + val,
              !.nineam_sum = @ + val,
              !.interval_sum = @ + val]

\* mutant of ScalarAddValue: the null check is missing
ScalarAddValue_NoNullCheck(b, val, ts, hilo, history, sum) ==
    LET b1 == ScalarAddLast(b, val, ts)
        b2 == IF hilo THEN ScalarAddHilo(b1, val, ts) ELSE b1
        b3 == IF history THEN ScalarAddHistory(b2, val, ts) ELSE b2
    IN  IF sum THEN ScalarAddSum(b3, val) ELSE b3

\* mutant of ScalarAddValue: the sums take the value only when it set a
\* new minimum or maximum
ScalarAddValue_SumGated(b, val, ts, hilo, history, sum) ==
    IF val # None
    THEN LET b1 == ScalarAddLast(b, val, ts)
             b2 == IF hilo THEN ScalarAddHilo(b1, val, ts) ELSE b1
             b3 == IF history THEN ScalarAddHistory(b2, val, ts) ELSE b2
         IN  IF sum /\ <<b2.day_min, b2.day_max>> # <<b1.day_min, b1.day_max>>
             THEN ScalarAddSum(b3, val)
             ELSE b3
    ELSE b

\* ScalarBuffer.add_value
ScalarAddValue(b, val, ts, hilo, history, sum) ==
    IF val # None
    THEN LET b1 == ScalarAddLast(b, val, ts)
             b2 == IF hilo THEN ScalarAddHilo(b1, val, ts) ELSE b1
             b3 == IF history THEN ScalarAddHistory(b2, val, ts) ELSE b2
         IN  IF sum THEN ScalarAddSum(b3, val) ELSE b3
    ELSE b

\* mutant of ScalarDayReset: the times of the extremes are kept
ScalarDayReset_KeepTimes(b) ==
    [b EXCEPT !.day_min = None, !.day_max = None,
              !.day_sum = 0,
              !.attrs = @ \cup {"day_sum"}]

\* ScalarBuffer.day_reset: the assignment to day_sum cannot raise, so the
\* attribute is created when the object had none
ScalarDayReset(b) ==
    [b EXCEPT !.day_min = None, !.day_mintime = None,
              !.day_max = None, !.day_maxtime = None,
              !.day_sum = 0,
              !.attrs = @ \cup {"day_sum"}]

ScalarNineamReset(b) ==
    [b EXCEPT !.nineam_sum = 0, !.attrs = @ \cup {"nineam_sum"}]

ScalarIntervalReset(b) ==
    [b EXCEPT !.interval_sum = 0, !.attrs = @ \cup {"interval_sum"}]

HiloOf(b) ==
    [min |-> b.day_min, mintime |-> b.day_mintime,
     max |-> b.day_max, maxtime |-> b.day_maxtime]

-----------------------------------------------------------------------------
(* class VectorBuffer *)

\* wind speeds and compass directions of the samples
Speeds == {1, 2}
Directions == {0, 90}

\* math.cos(math.radians(90.0 - w_dir)) on the compass points
CosCompass(w_dir) ==
    CASE w_dir = 0 -> 0 [] w_dir = 90 -> 1 [] w_dir = 180 -> 0 [] w_dir = 270 -> -1

\* math.sin(math.radians(90.0 - w_dir)) on the compass points
SinCompass(w_dir) ==
    CASE w_dir = 0 -> 1 [] w_dir = 90 -> 0 [] w_dir = 180 -> -1 [] w_dir = 270 -> 0

VectorStats(min, mintime, max, max_dir, maxtime, sum, xsum, ysum, sumtime) ==
    [present |-> TRUE, min |-> min, mintime |-> mintime, max |-> max,
     max_dir |-> max_dir, maxtime |-> maxtime, sum |-> sum,
     xsum |-> xsum, ysum |-> ysum, sumtime |-> sumtime]

\* the seeds tried: no summary, a day with data
VectorSeeds ==
    {NoStats,
     VectorStats(1, 0, 2, 90, 300, 3, 2, 1, 300)}

\* the (w_speed, w_dir) tuple kept in last; last = None is NoLast
NoLast == [speed |-> None, dir |-> None]

VectorBufferInit(stats, units, history, sum) ==
    [units       |-> units,
     last        |-> NoLast,
     lasttime    |-> None,
     day_min     |-> IF stats.present THEN stats.min ELSE None,
     day_mintime |-> IF stats.present THEN stats.mintime ELSE None,
     day_max     |-> IF stats.present THEN stats.max ELSE None,
     day_max_dir |-> IF stats.present THEN stats.max_dir ELSE None,
     day_maxtime |-> IF stats.present THEN stats.maxtime ELSE None,
     history      |-> <<>>,
     history_full |-> FALSE,
     day_sum      |-> IF sum /\ stats.present THEN stats.sum ELSE 0,
     day_xsum     |-> IF sum /\ stats.present THEN stats.xsum ELSE 0,
     day_ysum     |-> IF sum /\ stats.present THEN stats.ysum ELSE 0,
     sumtime      |-> IF sum /\ stats.present THEN stats.sumtime ELSE 0,
     nineam_sum   |-> 0,
     interval_sum |-> 0,
     attrs |-> (IF history THEN {"history", "history_full"} ELSE {})
               \cup (IF sum THEN {"day_sum", "day_xsum", "day_ysum", "sumtime",
                                  "nineam_sum", "interval_sum"}
                     ELSE {})]

\* VectorBuffer.trim_history
VectorTrimHistory(b, ts) ==
    LET oldest_ts == ts - MAX_AGE
    IN  [b EXCEPT !.history_full = (MinTs(b.history) <= oldest_ts),
                  !.history = SelectKeep(b.history, oldest_ts)]

VectorAddHilo(b, w_speed, w_dir, ts) ==
    LET b1 == IF b.day_min = None \/ w_speed < b.day_min
              THEN [b EXCEPT !.day_min = w_speed, !.day_mintime = ts]
              ELSE b
    IN  IF b1.day_max = None \/ w_speed > b1.day_max
        THEN [b1 EXCEPT !.day_max = w_speed, !.day_max_dir = w_dir,
                        !.day_maxtime = ts]
        ELSE b1

\* mutant of VectorAddHistory: a sample without direction is appended too
VectorAddHistory_NullDir(b, w_speed, w_dir, ts) ==
    VectorTrimHistory(
        [b EXCEPT !.history =
            Append(@, ObsTuple(IF w_dir # None
                               THEN <<w_speed, CosCompass(w_dir),
                                      SinCompass(w_dir)>>
                               ELSE <<w_speed, None, None>>, ts))], ts)

VectorAddHistory(b, w_speed, w_dir, ts) ==
    IF w_dir # None
    THEN VectorTrimHistory(
             [b EXCEPT !.history =
                 Append(@, ObsTuple(<<w_speed, CosCompass(w_dir),
                                      SinCompass(w_dir)>>, ts))], ts)
    ELSE b

\* "if self.lasttime:" is false for None and for the timestamp 0
VectorAddSum(b, w_speed, w_dir, ts) ==
    LET b1 == [b EXCEPT !.day_sum = @ + w_speed]
        b2 == IF b1.lasttime # None /\ b1.lasttime # 0
              THEN [b1 EXCEPT !.sumtime = @ + (ts - b1.lasttime)]
              ELSE b1
    IN  IF w_dir # None
        THEN [b2 EXCEPT !.day_xsum = @ + w_speed * CosCompass(w_dir),
                        !.day_ysum = @ + w_speed * SinCompass(w_dir)]
        ELSE b2

VectorAddLast(b, w_speed, w_dir, ts) ==
    IF b.lasttime = None \/ ts >= b.lasttime
    THEN [b EXCEPT !.last = [speed |-> w_speed, dir |-> w_dir],
                   !.lasttime = ts]
    ELSE b

\* VectorBuffer.add_value, val = (w_speed, w_dir)
VectorAddValue(b, w_speed, w_dir, ts, hilo, history, sum) ==
    IF w_speed # None
    THEN LET b1 == IF hilo THEN VectorAddHilo(b, w_speed, w_dir, ts) ELSE b
             b2 == IF history THEN VectorAddHistory(b1, w_speed, w_dir, ts)
                   ELSE b1
             b3 == IF sum THEN VectorAddSum(b2, w_speed, w_dir, ts) ELSE b2
         IN  VectorAddLast(b3, w_speed, w_dir, ts)
    ELSE b

\* mutant of VectorDayReset: the vector sums and sumtime restart as well
VectorDayReset_ClearSums(b) ==
    [b EXCEPT !.day_min = None, !.day_mintime = None,
              !.day_max = None, !.day_max_dir = None, !.day_maxtime = None,
              !.day_sum = 0, !.day_xsum = 0, !.day_ysum = 0, !.sumtime = 0,
              !.attrs = @ \cup {"day_sum"}]

\* VectorBuffer.day_reset
VectorDayReset(b) ==
    [b EXCEPT !.day_min = None, !.day_mintime = None,
              !.day_max = None, !.day_max_dir = None, !.day_maxtime = None,
              !.day_sum = 0,
              !.attrs = @ \cup {"day_sum"}]

VectorNineamReset(b) ==
    [b EXCEPT !.nineam_sum = 0, !.attrs = @ \cup {"nineam_sum"}]

VectorIntervalReset(b) ==
    [b EXCEPT !.interval_sum = 0, !.attrs = @ \cup {"interval_sum"}]

\* what a property raises when it divides by a zero sumtime
ZeroDivisionError == [raised |-> "ZeroDivisionError"]

\* VectorBuffer.day_vec_avg: math.sqrt((day_xsum**2 + day_ysum**2) /
\* sumtime**2), kept as the fraction under the root
day_vec_avg(b) ==
    IF b.sumtime = 0
    THEN ZeroDivisionError
    ELSE [sq_num |-> b.day_xsum * b.day_xsum + b.day_ysum * b.day_ysum,
          sq_den |-> b.sumtime * b.sumtime]

\* a result of day_vec_avg equal to the number m >= 0
AvgEquals(r, m) == r # ZeroDivisionError /\ r.sq_num = m * m * r.sq_den

\* an angle that is not a whole multiple of 45 degrees
OffCompass == -2

\* math.degrees(math.atan2(y, x)) where it is a multiple of 45 degrees
Atan2Degrees(y, x) ==
    CASE y = 0 /\ x >= 0 -> 0
      [] y = 0 /\ x < 0  -> 180
      [] x = 0 /\ y > 0  -> 90
      [] x = 0 /\ y < 0  -> -90
      [] x > 0 /\ y = x  -> 45
      [] x > 0 /\ y = -x -> -45
      [] x < 0 /\ y = -x -> 135
      [] x < 0 /\ y = x  -> -135
      [] OTHER -> OffCompass

\* VectorBuffer.day_vec_dir
day_vec_dir(b) ==
    LET a == Atan2Degrees(b.day_ysum, b.day_xsum)
    IN  IF a = OffCompass THEN OffCompass
        ELSE IF 90 - a < 0 THEN 90 - a + 360 ELSE 90 - a

-----------------------------------------------------------------------------
(* Unit systems and conversion (weewx.units, as this code calls it).  Only  *)
(* the two metric systems are modelled: they share degree_C and differ in   *)
(* the unit of speed, km_per_hour against meter_per_second.  Sample values  *)
(* are chosen so that the conversions are exact in integers.                *)

NoUnits == "None"
UnitSystems == {"METRIC", "METRICWX"}

\* weewx.units.getStandardUnitType(unit_system, obs)
StdUnit(us, obs) ==
    CASE obs \in {"windSpeed", "windGust", "wind"} ->
             (IF us = "METRIC" THEN "km_per_hour" ELSE "meter_per_second")
      [] obs \in {"outTemp", "inTemp"} -> "degree_C"
      [] obs \in {"windDir"} -> "degree_compass"

\* weewx.units.convert on a value: None stays None
ConvertValue(v, from_unit, to_unit) ==
    IF v = None \/ from_unit = to_unit THEN v
    ELSE CASE from_unit = "km_per_hour" /\ to_unit = "meter_per_second" ->
                  (v * 5) \div 18
           [] from_unit = "meter_per_second" /\ to_unit = "km_per_hour" ->
                  (v * 18) \div 5

\* weewx.units.convertStd(ValueTuple(v, unit, group), unit_system).value
ConvertStd(v, obs, from_us, to_us) ==
    ConvertValue(v, StdUnit(from_us, obs), StdUnit(to_us, obs))

\* weewx.units.to_std_system(packet, unit_system)
ToStdSystem(packet, us) ==
    [packet EXCEPT !.usUnits = us,
                   !.obs = [f \in DOMAIN packet.obs |->
                               ConvertStd(packet.obs[f], f, packet.usUnits, us)]]

\* the values a loop packet of unit system us may carry for field f
FieldValues(f, us) ==
    CASE f \in {"windSpeed"} -> (IF us = "METRIC" THEN {36, 72} ELSE {10, 20})
      [] f \in {"windGust"} -> (IF us = "METRIC" THEN {72} ELSE {20})
      [] f \in {"outTemp"} -> {5, 15}
      [] f \in {"windDir"} -> {90}

\* the observations of a loop packet of unit system us over the fields F:
\* each field absent, null or a value
PacketObs(F, us) ==
    UNION {{g \in [S -> UNION {FieldValues(f, us) : f \in S} \cup {None}] :
              \A f \in S : g[f] \in FieldValues(f, us) \cup {None}} :
           S \in SUBSET F}

\* loop packets over the fields F, in a unit system of units, with a
\* dateTime in times
PacketsOver(F, units, times) ==
    UNION {{[usUnits |-> us, dateTime |-> t, obs |-> o] :
              t \in times, o \in PacketObs(F, us)} :
           us \in units}

-----------------------------------------------------------------------------
(* class CachedPacket *)

\* CachedPacket.OBS, restricted to two of its eighteen fields
OBS == {"outTemp", "windSpeed"}
\* the fields of the loop packets fed to the cache: windGust is a loop field
\* that is not in CachedPacket.OBS; outTemp is left to the priming record
CachePacketFields == {"windSpeed", "windGust"}
\* max_age arguments of get_value / get_packet
MaxAges == {0, MAX_AGE \div 2, MAX_AGE}

\* the archive records the cache is primed from: rec.present is the set of
\* keys of rec
CacheSeeds ==
    {[present |-> {"dateTime"}, dateTime |-> 0, usUnits |-> NoUnits,
      obs |-> <<>>],
     [present |-> {"dateTime", "windSpeed"}, dateTime |-> 0,
      usUnits |-> NoUnits, obs |-> [f \in {"windSpeed"} |-> 10]],
     [present |-> {"dateTime", "usUnits", "windSpeed"}, dateTime |-> 0,
      usUnits |-> "METRIC", obs |-> [f \in {"windSpeed"} |-> 36]],
     [present |-> {"dateTime", "usUnits", "windSpeed", "outTemp"},
      dateTime |-> 300, usUnits |-> "METRICWX",
      obs |-> [f \in {"windSpeed", "outTemp"} |->
                  IF f = "windSpeed" THEN 10 ELSE None]]}

\* CachedPacket.__init__: the cache
CachedPacketInit(rec) ==
    [_obs \in OBS |->
        IF _obs \in rec.present /\ "usUnits" \in rec.present
        THEN [value |-> rec.obs[_obs], ts |-> rec.dateTime]
        ELSE [value |-> None, ts |-> rec.dateTime]]

\* CachedPacket.__init__: the unit system
CachedPacketInitUnits(rec) ==
    IF "usUnits" \in rec.present THEN rec.usUnits ELSE NoUnits

\* CachedPacket.update: the unit system after the call
CacheAdoptUnits(us, packet) ==
    IF us = NoUnits THEN packet.usUnits ELSE us

\* mutant of CacheConvert: the packet is stored in the units it came in
CacheConvert_Skipped(us, packet) == packet

\* CachedPacket.update: the packet whose fields are stored
CacheConvert(us, packet) ==
    IF us # NoUnits /\ us # packet.usUnits
    THEN ToStdSystem(packet, us)
    ELSE packet

\* mutant of CacheStore: a null value evicts the cached one
CacheStore_Nulls(c, packet, ts) ==
    [obs \in DOMAIN c \cup DOMAIN packet.obs |->
        IF obs \in DOMAIN packet.obs
        THEN [value |-> packet.obs[obs], ts |-> ts]
        ELSE c[obs]]

\* mutant of CacheStore: only the fields of OBS are stored
CacheStore_OnlyOBS(c, packet, ts) ==
    LET stored == {obs \in DOMAIN packet.obs \cap OBS : packet.obs[obs] # None}
    IN  [obs \in DOMAIN c \cup stored |->
            IF obs \in stored
            THEN [value |-> packet.obs[obs], ts |-> ts]
            ELSE c[obs]]

\* CachedPacket.update: the loop over the packet's fields
CacheStore(c, packet, ts) ==
    LET stored == {obs \in DOMAIN packet.obs : packet.obs[obs] # None}
    IN  [obs \in DOMAIN c \cup stored |->
            IF obs \in stored
            THEN [value |-> packet.obs[obs], ts |-> ts]
            ELSE c[obs]]

\* CachedPacket.update
CacheUpdate(c, us, packet, ts) == CacheStore(c, CacheConvert(us, packet), ts)

\* mutant of GetValue: a value exactly max_age old is already stale
GetValue_StrictAge(c, obs, ts, max_age) ==
    IF obs \in DOMAIN c /\ ts - c[obs].ts < max_age
    THEN c[obs].value
    ELSE None

\* CachedPacket.get_value
GetValue(c, obs, ts, max_age) ==
    IF obs \in DOMAIN c /\ ts - c[obs].ts <= max_age
    THEN c[obs].value
    ELSE None

\* CachedPacket.get_packet
GetPacket(c, us, ts, max_age) ==
    [dateTime |-> ts, usUnits |-> us,
     obs |-> [obs \in DOMAIN c |-> GetValue(c, obs, ts, max_age)]]

-----------------------------------------------------------------------------
(* class Buffer *)

\* Buffer.MANIFEST and its sub-manifests, restricted to four observations
MANIFEST == {"outTemp", "windSpeed", "windDir", "wind"}
HILO_MANIFEST == {"outTemp", "windSpeed"}
HIST_MANIFEST == {"windSpeed", "windDir", "wind"}
SUM_MANIFEST == {"wind"}

\* accumulator fields of a scalar observation, with the wsum that
\* seed_windrun reads
AccumStats(min, mintime, max, maxtime, sum, wsum) ==
    [present |-> TRUE, min |-> min, mintime |-> mintime,
     max |-> max, maxtime |-> maxtime, sum |-> sum, wsum |-> wsum]

\* the day summaries tried: an empty one, a METRIC one (km/h) and a METRICWX
\* one (m/s) whose wind vector is seeded too
DaySummaries ==
    {[unit_system |-> "METRICWX", stats |-> <<>>],
     [unit_system |-> "METRIC",
      stats |-> [obs \in {"outTemp", "windSpeed"} |->
                    IF obs = "outTemp"
                    THEN AccumStats(10, 300, 10, 300, 10, 3000)
                    ELSE AccumStats(54, 300, 54, 300, 54, 16200)]],
     [unit_system |-> "METRICWX",
      stats |-> [obs \in {"outTemp", "windSpeed", "wind"} |->
                    CASE obs = "outTemp" -> AccumStats(None, None, None, None, 0, 0)
                      [] obs = "windSpeed" -> AccumStats(15, 300, 15, 300, 15, 4500)
                      [] obs = "wind" -> VectorStats(15, 300, 15, 90, 300, 15, 15, 0, 300)]]}

\* init_dict.get(obs, ScalarBuffer)(stats=..., units=..., history=..., sum=...)
NewAggregator(obs, stats, units, hist, sum) ==
    IF obs = "wind"
    THEN VectorBufferInit(stats, units, hist, sum)
    ELSE ScalarBufferInit(stats, units, hist, sum)

\* Buffer.__init__ / seed_scalar / seed_vector: the dict
BufferInit(day_stats) ==
    [obs \in DOMAIN day_stats.stats \cap MANIFEST |->
        NewAggregator(obs, day_stats.stats[obs], day_stats.unit_system,
                      obs \in HIST_MANIFEST, obs \in SUM_MANIFEST)]

\* Buffer.seed_windrun: wsum as a km_per_hour figure, divided by 3600; the
\* model keeps windrun in thousandths
SeedWindrun(day_stats) ==
    IF "windSpeed" \in DOMAIN day_stats.stats
    THEN (ConvertValue(day_stats.stats["windSpeed"].wsum,
                       StdUnit(day_stats.unit_system, "windSpeed"),
                       "km_per_hour") * 1000) \div 3600
    ELSE 0

\* mutant of BufferValue: the packet's value is handed over unconverted
BufferValue_Raw(b, packet, obs) == packet.obs[obs]

\* the value Buffer.add_value / add_wind_value hands to the aggregator
BufferValue(b, packet, obs) ==
    IF b.units = packet.usUnits
    THEN packet.obs[obs]
    ELSE ConvertStd(packet.obs[obs], obs, packet.usUnits, b.units)

\* Buffer.add_value
BufferAddValue(buf, packet, obs, hilo, hist, sum) ==
    LET b == IF obs \in DOMAIN buf
             THEN buf[obs]
             ELSE NewAggregator(obs, NoStats, packet.usUnits, hist, sum)
    IN  (obs :> ScalarAddValue(b, BufferValue(b, packet, obs), packet.dateTime,
                               hilo, hist, sum)) @@ buf

\* Buffer.add_wind_value: the windSpeed scalar and the wind vector
BufferAddWindValue(buf, packet, obs, hilo, hist, sum) ==
    LET buf1 == BufferAddValue(buf, packet, obs, hilo, hist, sum)
        w == IF "wind" \in DOMAIN buf1
             THEN buf1["wind"]
             ELSE VectorBufferInit(NoStats, packet.usUnits, TRUE, TRUE)
        w_dir == IF "windDir" \in DOMAIN packet.obs
                 THEN packet.obs["windDir"]
                 ELSE None
    IN  ("wind" :> VectorAddValue(w, BufferValue(w, packet, "windSpeed"), w_dir,
                                  packet.dateTime, TRUE, TRUE, TRUE)) @@ buf1

\* mutant of WindrunAdd: the previous timestamp is not subtracted
WindrunAdd_NoElapsed(run, last_ts, packet) ==
    IF "windSpeed" \in DOMAIN packet.obs
    THEN IF packet.obs["windSpeed"] # None /\ last_ts # None
         THEN run + packet.obs["windSpeed"] * packet.dateTime
         ELSE run
    ELSE run

\* mutant of WindrunAdd: a missing previous timestamp counts as 0
WindrunAdd_FromZero(run, last_ts, packet) ==
    IF "windSpeed" \in DOMAIN packet.obs
    THEN IF packet.obs["windSpeed"] # None
         THEN run + packet.obs["windSpeed"]
                      * (packet.dateTime - (IF last_ts = None THEN 0
                                            ELSE last_ts))
         ELSE run
    ELSE run

\* Buffer.add_wind_value: windrun.  A null speed or a missing previous
\* timestamp raises TypeError, which is swallowed.  The division by 1000.0 is
\* the model's unit of windrun.
WindrunAdd(run, last_ts, packet) ==
    IF "windSpeed" \in DOMAIN packet.obs
    THEN IF packet.obs["windSpeed"] # None /\ last_ts # None
         THEN run + packet.obs["windSpeed"] * (packet.dateTime - last_ts)
         ELSE run
    ELSE run

\* Buffer.add_wind_value: last_windSpeed_ts
WindSpeedTs(last_ts, packet) ==
    IF "windSpeed" \in DOMAIN packet.obs THEN packet.dateTime ELSE last_ts

\* add_functions.get(obs, Buffer.add_value)(self, packet, obs, ...)
BufferAddObs(buf, packet, obs) ==
    IF obs = "windSpeed"
    THEN BufferAddWindValue(buf, packet, obs, obs \in HILO_MANIFEST,
                            obs \in HIST_MANIFEST, obs \in SUM_MANIFEST)
    ELSE BufferAddValue(buf, packet, obs, obs \in HILO_MANIFEST,
                        obs \in HIST_MANIFEST, obs \in SUM_MANIFEST)

\* Buffer.add_packet: the loop over the packet's observations (they touch
\* different aggregators, so the order of the dict's keys does not matter)
RECURSIVE BufferAddAll(_, _, _)
BufferAddAll(buf, packet, todo) ==
    IF todo = {} THEN buf
    ELSE LET obs == CHOOSE o \in todo : TRUE
         IN  BufferAddAll(BufferAddObs(buf, packet, obs), packet, todo \ {obs})

\* Buffer.add_packet
BufferAddPacket(buf, packet) ==
    IF packet.dateTime # None
    THEN BufferAddAll(buf, packet, DOMAIN packet.obs \cap MANIFEST)
    ELSE buf

\* the outcome of a call that may raise: the buffer as the call left it and
\* the exception that escaped, if any
NoException == "none"
Outcome(buf, exc) == [buffer |-> buf, raised |-> exc]

\* Buffer.MANIFEST in the order of the list
ManifestOrder == <<"outTemp", "windSpeed", "windDir", "wind">>

\* self[obs].day_reset()
AggregatorDayReset(obs, b) ==
    IF obs = "wind" THEN VectorDayReset(b) ELSE ScalarDayReset(b)

\* Buffer.start_of_day_reset, from the i-th observation of the manifest on:
\* self[obs] raises KeyError for an observation the buffer does not hold
RECURSIVE DayResetFrom(_, _)
DayResetFrom(buf, i) ==
    IF i > Len(ManifestOrder) THEN Outcome(buf, NoException)
    ELSE LET obs == ManifestOrder[i]
         IN  IF obs \notin DOMAIN buf
             THEN Outcome(buf, "KeyError")
             ELSE DayResetFrom([buf EXCEPT ![obs] = AggregatorDayReset(obs, @)],
                               i + 1)

\* Buffer.start_of_day_reset
BufferStartOfDayReset(buf) == DayResetFrom(buf, 1)

\* Buffer.nineam_reset: "for obs in SUM" names nothing that the module
\* defines, so evaluating it raises NameError before the loop starts
BufferNineamReset(buf) == Outcome(buf, "NameError")

-----------------------------------------------------------------------------
(* class MQTTPublish *)

\* what one pass of the loop body of publish may meet: the broker accepts
\* the message (res == MQTT_ERR_SUCCESS), the broker call reports an error
\* (res != MQTT_ERR_SUCCESS), or connect/publish raises a socket error
AttemptResults == {"success", "mqtt_error", "socket_error"}

\* a publish call about to run its first attempt
PublishCall(max_tries, retry_wait) ==
    [max_tries |-> max_tries, retry_wait |-> retry_wait,
     pc |-> "loop", attempts |-> <<>>, slept |-> 0, logged |-> <<>>]

\* mutant of PublishAttempt: a broker error is retried like a socket error
PublishAttempt_RetryBrokerError(p, res) ==
    LET tried == [p EXCEPT !.attempts = Append(@, res)]
    IN  IF res = "success"
        THEN [tried EXCEPT !.pc = "returned"]
        ELSE [tried EXCEPT !.logged = Append(@, res),
                           !.slept = @ + p.retry_wait]

\* one pass of the loop body of MQTTPublish.publish with the result res:
\* a success or a broker error returns (the error is logged); a socket
\* error is logged and followed by time.sleep(retry_wait)
PublishAttempt(p, res) ==
    LET tried == [p EXCEPT !.attempts = Append(@, res)]
    IN  CASE res = "success" -> [tried EXCEPT !.pc = "returned"]
          [] res = "mqtt_error" ->
                 [tried EXCEPT !.pc = "returned", !.logged = Append(@, res)]
          [] res = "socket_error" ->
                 [tried EXCEPT !.logged = Append(@, res),
                               !.slept = @ + p.retry_wait]

\* the else clause of the for loop: range(max_tries) is exhausted
PublishExhausted(p) == [p EXCEPT !.pc = "FailedPost"]

-----------------------------------------------------------------------------
(* calc_trend *)

\* outcomes of a call: a number, None, or an exception that escapes
Returned(v) == [kind |-> "value", value |-> v]
ReturnedNone == [kind |-> "None"]
Raised(exc) == [kind |-> "raised", exc |-> exc]

\* db_manager.getRecord found nothing
NoRecord == [found |-> FALSE]

\* the archive records getRecord may return: obs maps the fields of the
\* record to their values, and a field of a record may hold null
ArchiveRecords ==
    UNION {{[found |-> TRUE, usUnits |-> us, obs |-> o] :
              o \in PacketObs({"windSpeed"}, us)} : us \in UnitSystems}

\* the now_vt arguments: a speed with its unit
NowValues ==
    {[value |-> v, unit |-> StdUnit(us, "windSpeed")] :
        us \in UnitSystems, v \in {None}} \cup
    UNION {{[value |-> v, unit |-> StdUnit(us, "windSpeed")] :
              v \in FieldValues("windSpeed", us)} : us \in UnitSystems}

\* the obs_type arguments: windGust is in none of the records
TrendObs == {"windSpeed", "windGust"}

\* the units arguments
TrendUnits == {"km_per_hour", "meter_per_second"}

\* calc_trend(obs_type, now_vt, units, db_manager, then_ts, grace), where
\* then_record is what db_manager.getRecord(then_ts, grace) returns.
\* convert passes a null value through, and "now - then" with a null then
\* raises TypeError.
calc_trend(obs_type, now_vt, units, then_record) ==
    IF now_vt.value = None THEN ReturnedNone
    ELSE IF ~then_record.found THEN ReturnedNone
    ELSE IF obs_type \notin DOMAIN then_record.obs THEN ReturnedNone
    ELSE LET now == ConvertValue(now_vt.value, now_vt.unit, units)
             then == ConvertValue(then_record.obs[obs_type],
                                  StdUnit(then_record.usUnits, obs_type), units)
         IN  IF then = None THEN Raised("TypeError") ELSE Returned(now - then)

-----------------------------------------------------------------------------
(* Idle values of the components a specification does not exercise *)

IdleScalar ==
    /\ sb = ScalarBufferInit(NoStats, "METRICWX", FALSE, FALSE)
    /\ sbFlags = [hilo |-> FALSE, history |-> FALSE, sum |-> FALSE]
    /\ sbLog = <<>>
    /\ sbBase = HiloOf(sb)
    /\ sbCalls = <<>>

IdleVector ==
    /\ vb = VectorBufferInit(NoStats, "METRICWX", FALSE, FALSE)
    /\ vbFlags = [hilo |-> FALSE, history |-> FALSE, sum |-> FALSE]
    /\ vbLog = <<>>

IdleCache ==
    /\ cache = <<>>
    /\ unit_system = NoUnits
    /\ updates = <<>>

IdleTrend == trend = <<>>

IdlePublish == pub = <<>>

IdleThread ==
    /\ queue = <<>>
    /\ clock = 0
    /\ thread = <<>>
    /\ thLog = <<>>

\* the services that stand beside the dashboard thread
IdleServices == alarm = <<>> /\ wu = <<>>

IdleBuffer ==
    /\ buffer = <<>>
    /\ windrun = 0
    /\ last_windSpeed_ts = None
    /\ primary_unit_system = NoUnits
    /\ bufLog = <<>>

-----------------------------------------------------------------------------
(* SpecScalar: one ScalarBuffer driven through its methods *)

InitScalar ==
    /\ sbFlags \in Flags
    /\ \E stats \in ScalarSeeds :
           sb = ScalarBufferInit(stats, "METRICWX", sbFlags.history, sbFlags.sum)
    /\ sbLog = <<>>
    /\ sbBase = HiloOf(sb)
    /\ sbCalls = <<>>
    /\ IdleVector /\ IdleCache /\ IdleBuffer
    /\ IdleTrend /\ IdlePublish /\ IdleThread /\ IdleServices
    /\ component = "scalar"
    /\ call = NoCall
    /\ steps = 0

\* add_value(val, ts, hilo, history, sum) with the flags of this observation
SbAddValue ==
    /\ component = "scalar"
    /\ steps < MaxSteps
    /\ \E val \in Values \cup {None}, ts \in TimeStamps :
        /\ sb' = ScalarAddValue(sb, val, ts, sbFlags.hilo, sbFlags.history,
                                sbFlags.sum)
        /\ sbLog' = IF val # None /\ sbFlags.hilo
                    THEN Append(sbLog, ObsTuple(val, ts))
                    ELSE sbLog
        /\ call' = Call("add_value", val, None, ts)
    /\ steps' = steps + 1
    /\ UNCHANGED <<sbFlags, sbBase, sbCalls, vectorVars, cacheVars, bufferVars, component,
                   trendVars,
                   pubVars,
                   threadVars,
                   serviceVars>>

SbDayReset ==
    /\ component = "scalar"
    /\ steps < MaxSteps
    /\ sb' = ScalarDayReset(sb)
    /\ sbLog' = <<>>
    /\ sbBase' = HiloOf(sb')
    /\ call' = Call("day_reset", None, None, None)
    /\ steps' = steps + 1
    /\ UNCHANGED <<sbFlags, sbCalls, vectorVars, cacheVars, bufferVars, component,
                   trendVars,
                   pubVars,
                   threadVars,
                   serviceVars>>

SbNineamReset ==
    /\ component = "scalar"
    /\ steps < MaxSteps
    /\ sb' = ScalarNineamReset(sb)
    /\ call' = Call("nineam_reset", None, None, None)
    /\ steps' = steps + 1
    /\ UNCHANGED <<sbFlags, sbLog, sbBase, sbCalls, vectorVars, cacheVars, bufferVars, component,
                   trendVars,
                   pubVars,
                   threadVars,
                   serviceVars>>

SbIntervalReset ==
    /\ component = "scalar"
    /\ steps < MaxSteps
    /\ sb' = ScalarIntervalReset(sb)
    /\ call' = Call("interval_reset", None, None, None)
    /\ steps' = steps + 1
    /\ UNCHANGED <<sbFlags, sbLog, sbBase, sbCalls, vectorVars, cacheVars, bufferVars, component,
                   trendVars,
                   pubVars,
                   threadVars,
                   serviceVars>>

NextScalar == SbAddValue \/ SbDayReset \/ SbNineamReset \/ SbIntervalReset

SpecScalar == InitScalar /\ [][NextScalar]_vars

-----------------------------------------------------------------------------
(* SpecSums: one ScalarBuffer driven through its methods, with the seed    *)
(* and every call made on it recorded in sbCalls, so that each sum can be  *)
(* recomputed from what was added since its own latest reset.  The         *)
(* timestamps increase with the calls.                                     *)

\* calls made on the buffer in one behaviour
MaxSumCalls == 3

InitSums ==
    /\ sbFlags \in Flags
    /\ \E stats \in ScalarSeeds :
        /\ sb = ScalarBufferInit(stats, "METRICWX", sbFlags.history, sbFlags.sum)
        /\ sbCalls = <<Call("init", sb.day_sum, None, None)>>
    /\ sbLog = <<>>
    /\ sbBase = HiloOf(sb)
    /\ IdleVector /\ IdleCache /\ IdleBuffer
    /\ IdleTrend /\ IdlePublish /\ IdleThread /\ IdleServices
    /\ component = "sums"
    /\ call = NoCall
    /\ steps = 0

SumsAddValue ==
    /\ component = "sums"
    /\ steps < MaxSumCalls
    /\ \E val \in Values \cup {None}, ts \in {steps * (MAX_AGE \div 2)} :
        /\ sb' = ScalarAddValue(sb, val, ts, sbFlags.hilo, sbFlags.history,
                                sbFlags.sum)
        /\ call' = Call("add_value", val, None, ts)
    /\ sbCalls' = Append(sbCalls, call')
    /\ steps' = steps + 1
    /\ UNCHANGED <<sbFlags, sbLog, sbBase, vectorVars, cacheVars, bufferVars,
                   component, trendVars, pubVars, threadVars,
                   serviceVars>>

SumsDayReset ==
    /\ component = "sums"
    /\ steps < MaxSumCalls
    /\ sb' = ScalarDayReset(sb)
    /\ call' = Call("day_reset", None, None, None)
    /\ sbCalls' = Append(sbCalls, call')
    /\ steps' = steps + 1
    /\ UNCHANGED <<sbFlags, sbLog, sbBase, vectorVars, cacheVars, bufferVars,
                   component, trendVars, pubVars, threadVars,
                   serviceVars>>

SumsNineamReset ==
    /\ component = "sums"
    /\ steps < MaxSumCalls
    /\ sb' = ScalarNineamReset(sb)
    /\ call' = Call("nineam_reset", None, None, None)
    /\ sbCalls' = Append(sbCalls, call')
    /\ steps' = steps + 1
    /\ UNCHANGED <<sbFlags, sbLog, sbBase, vectorVars, cacheVars, bufferVars,
                   component, trendVars, pubVars, threadVars,
                   serviceVars>>

SumsIntervalReset ==
    /\ component = "sums"
    /\ steps < MaxSumCalls
    /\ sb' = ScalarIntervalReset(sb)
    /\ call' = Call("interval_reset", None, None, None)
    /\ sbCalls' = Append(sbCalls, call')
    /\ steps' = steps + 1
    /\ UNCHANGED <<sbFlags, sbLog, sbBase, vectorVars, cacheVars, bufferVars,
                   component, trendVars, pubVars, threadVars,
                   serviceVars>>

NextSums ==
    SumsAddValue \/ SumsDayReset \/ SumsNineamReset \/ SumsIntervalReset

SpecSums == InitSums /\ [][NextSums]_vars

-----------------------------------------------------------------------------
(* SpecVector: one VectorBuffer driven through its methods.  Its only      *)
(* caller, Buffer.add_wind_value, constructs it with history and sum and   *)
(* calls add_value with the default flags (all true).                      *)

DefaultFlags == [hilo |-> TRUE, history |-> TRUE, sum |-> TRUE]

InitVector ==
    /\ vbFlags = DefaultFlags
    /\ \E stats \in VectorSeeds :
           vb = VectorBufferInit(stats, "METRICWX", vbFlags.history, vbFlags.sum)
    /\ vbLog = <<>>
    /\ IdleScalar /\ IdleCache /\ IdleBuffer
    /\ IdleTrend /\ IdlePublish /\ IdleThread /\ IdleServices
    /\ component = "vector"
    /\ call = NoCall
    /\ steps = 0

VbAddValue ==
    /\ component = "vector"
    /\ steps < MaxSteps
    /\ \E w_speed \in Speeds \cup {None}, w_dir \in Directions \cup {None},
          ts \in TimeStamps :
        /\ vb' = VectorAddValue(vb, w_speed, w_dir, ts, vbFlags.hilo,
                                vbFlags.history, vbFlags.sum)
        /\ call' = Call("add_value", w_speed, w_dir, ts)
    /\ steps' = steps + 1
    /\ UNCHANGED <<vbFlags, vbLog, scalarVars, cacheVars, bufferVars, component,
                   trendVars,
                   pubVars,
                   threadVars,
                   serviceVars>>

VbDayReset ==
    /\ component = "vector"
    /\ steps < MaxSteps
    /\ vb' = VectorDayReset(vb)
    /\ call' = Call("day_reset", None, None, None)
    /\ steps' = steps + 1
    /\ UNCHANGED <<vbFlags, vbLog, scalarVars, cacheVars, bufferVars, component,
                   trendVars,
                   pubVars,
                   threadVars,
                   serviceVars>>

VbNineamReset ==
    /\ component = "vector"
    /\ steps < MaxSteps
    /\ vb' = VectorNineamReset(vb)
    /\ call' = Call("nineam_reset", None, None, None)
    /\ steps' = steps + 1
    /\ UNCHANGED <<vbFlags, vbLog, scalarVars, cacheVars, bufferVars, component,
                   trendVars,
                   pubVars,
                   threadVars,
                   serviceVars>>

VbIntervalReset ==
    /\ component = "vector"
    /\ steps < MaxSteps
    /\ vb' = VectorIntervalReset(vb)
    /\ call' = Call("interval_reset", None, None, None)
    /\ steps' = steps + 1
    /\ UNCHANGED <<vbFlags, vbLog, scalarVars, cacheVars, bufferVars, component,
                   trendVars,
                   pubVars,
                   threadVars,
                   serviceVars>>

NextVector == VbAddValue \/ VbDayReset \/ VbNineamReset \/ VbIntervalReset

SpecVector == InitVector /\ [][NextVector]_vars

-----------------------------------------------------------------------------
(* SpecHistory: a history-tracked ScalarBuffer or VectorBuffer takes       *)
(* samples and is asked for history_max and history_avg over a window.     *)

\* add_value calls in one behaviour
MaxHistAdds == 2

\* the ts arguments tried: up to MAX_AGE/2 after the latest possible sample
HistoryQueryTimes == {k * (MAX_AGE \div 2) : k \in 1..(MaxTick + 1)}
\* the age arguments tried; MAX_AGE is the default
HistoryAges == {MAX_AGE \div 2, MAX_AGE}

\* [a for a in self.history if a.ts >= born]
RECURSIVE Snapshot(_, _)
Snapshot(history, born) ==
    IF history = <<>> THEN <<>>
    ELSE IF Head(history).ts >= born
         THEN <<Head(history)>> \o Snapshot(Tail(history), born)
         ELSE Snapshot(Tail(history), born)

\* sum(rec) over rec = [a.value for a in self.history ...]
RECURSIVE SumOfValues(_)
SumOfValues(rec) ==
    IF rec = <<>> THEN 0 ELSE Head(rec).value + SumOfValues(Tail(rec))

\* sum(snapshot) over snapshot = [a.value[0] for a in self.history ...]
RECURSIVE SumOfSpeeds(_)
SumOfSpeeds(rec) ==
    IF rec = <<>> THEN 0 ELSE Head(rec).value[1] + SumOfSpeeds(Tail(rec))

\* the quotient sum/len, kept exact as the pair (sum, len)
Quotient(total, count) == [num |-> total, den |-> count]

\* ScalarBuffer.history_max: the module never imports itemgetter, so the
\* max() line raises NameError whenever it is reached
ScalarHistoryMax(b, ts, age) ==
    LET born == ts - age
        snapshot == Snapshot(b.history, born)
    IN  IF Len(snapshot) > 0 THEN Raised("NameError") ELSE ReturnedNone

\* ScalarBuffer.history_avg: the test is on the whole history, not on the
\* entries of the window
ScalarHistoryAvg(b, ts, age) ==
    IF Len(b.history) > 0
    THEN LET born == ts - age
             rec == Snapshot(b.history, born)
         IN  IF Len(rec) = 0 THEN Raised("ZeroDivisionError")
             ELSE Returned(Quotient(SumOfValues(rec), Len(rec)))
    ELSE ReturnedNone

\* VectorBuffer.history_max
VectorHistoryMax(b, ts, age) ==
    LET born == ts - age
        snapshot == Snapshot(b.history, born)
    IN  IF Len(snapshot) > 0 THEN Raised("NameError") ELSE ReturnedNone

\* VectorBuffer.history_avg
VectorHistoryAvg(b, ts, age) ==
    LET born == ts - age
        snapshot == Snapshot(b.history, born)
    IN  IF Len(snapshot) > 0
        THEN Returned(Quotient(SumOfSpeeds(snapshot), Len(snapshot)))
        ELSE ReturnedNone

\* a history_max / history_avg call and what came of it
Query(op, ts, age, result) ==
    [op |-> op, ts |-> ts, age |-> age, result |-> result]

HistoryFlags == [hilo |-> TRUE, history |-> TRUE, sum |-> FALSE]

InitHistory ==
    /\ \/ /\ sbFlags = HistoryFlags
          /\ sb = ScalarBufferInit(NoStats, "METRICWX", TRUE, FALSE)
          /\ sbLog = <<>> /\ sbBase = HiloOf(sb) /\ sbCalls = <<>>
          /\ IdleVector
          /\ component = "scalar history"
       \/ /\ vbFlags = DefaultFlags
          /\ vb = VectorBufferInit(NoStats, "METRICWX", TRUE, TRUE)
          /\ vbLog = <<>>
          /\ IdleScalar
          /\ component = "vector history"
    /\ IdleCache /\ IdleBuffer
    /\ IdleTrend /\ IdlePublish /\ IdleThread /\ IdleServices
    /\ call = NoCall
    /\ steps = 0

HistScalarAddValue ==
    /\ component = "scalar history"
    /\ steps < MaxHistAdds
    /\ \E val \in Values, ts \in TimeStamps :
        /\ sb' = ScalarAddValue(sb, val, ts, sbFlags.hilo, sbFlags.history,
                                sbFlags.sum)
        /\ call' = Call("add_value", val, None, ts)
    /\ steps' = steps + 1
    /\ UNCHANGED <<sbFlags, sbLog, sbBase, sbCalls, vectorVars, cacheVars,
                   bufferVars, component, trendVars, pubVars, threadVars,
                   serviceVars>>

HistVectorAddValue ==
    /\ component = "vector history"
    /\ steps < MaxHistAdds
    /\ \E w_speed \in Speeds, w_dir \in Directions \cup {None},
          ts \in TimeStamps :
        /\ vb' = VectorAddValue(vb, w_speed, w_dir, ts, vbFlags.hilo,
                                vbFlags.history, vbFlags.sum)
        /\ call' = Call("add_value", w_speed, w_dir, ts)
    /\ steps' = steps + 1
    /\ UNCHANGED <<vbFlags, vbLog, scalarVars, cacheVars, bufferVars,
                   component, trendVars, pubVars, threadVars,
                   serviceVars>>

HistScalarMax ==
    /\ component = "scalar history"
    /\ \E ts \in HistoryQueryTimes, age \in HistoryAges :
           call' = Query("history_max", ts, age, ScalarHistoryMax(sb, ts, age))
    /\ UNCHANGED <<scalarVars, vectorVars, cacheVars, bufferVars, component,
                   trendVars, pubVars, threadVars, steps,
                   serviceVars>>

HistScalarAvg ==
    /\ component = "scalar history"
    /\ \E ts \in HistoryQueryTimes, age \in HistoryAges :
           call' = Query("history_avg", ts, age, ScalarHistoryAvg(sb, ts, age))
    /\ UNCHANGED <<scalarVars, vectorVars, cacheVars, bufferVars, component,
                   trendVars, pubVars, threadVars, steps,
                   serviceVars>>

HistVectorMax ==
    /\ component = "vector history"
    /\ \E ts \in HistoryQueryTimes, age \in HistoryAges :
           call' = Query("history_max", ts, age, VectorHistoryMax(vb, ts, age))
    /\ UNCHANGED <<scalarVars, vectorVars, cacheVars, bufferVars, component,
                   trendVars, pubVars, threadVars, steps,
                   serviceVars>>

HistVectorAvg ==
    /\ component = "vector history"
    /\ \E ts \in HistoryQueryTimes, age \in HistoryAges :
           call' = Query("history_avg", ts, age, VectorHistoryAvg(vb, ts, age))
    /\ UNCHANGED <<scalarVars, vectorVars, cacheVars, bufferVars, component,
                   trendVars, pubVars, threadVars, steps,
                   serviceVars>>

NextHistory ==
    \/ HistScalarAddValue \/ HistVectorAddValue
    \/ HistScalarMax \/ HistScalarAvg
    \/ HistVectorMax \/ HistVectorAvg

SpecHistory == InitHistory /\ [][NextHistory]_vars

-----------------------------------------------------------------------------
(* SpecVecAvg: a fresh sum-tracked VectorBuffer fed wind samples whose      *)
(* timestamps increase, as the dateTime of successive loop packets does.   *)

\* samples added in one behaviour
MaxSamples == 3
\* the timestamps of the samples are 1..MaxSampleTime
MaxSampleTime == 4
SampleTimes == 1..MaxSampleTime
\* the four compass points
Compass == {0, 90, 180, 270}

InitVecAvg ==
    /\ vbFlags = DefaultFlags
    /\ vb = VectorBufferInit(NoStats, "METRICWX", TRUE, TRUE)
    /\ vbLog = <<>>
    /\ IdleScalar /\ IdleCache /\ IdleBuffer
    /\ IdleTrend /\ IdlePublish /\ IdleThread /\ IdleServices
    /\ component = "vecavg"
    /\ call = NoCall
    /\ steps = 0

VaAddValue ==
    /\ component = "vecavg"
    /\ steps < MaxSamples
    /\ \E w_speed \in Speeds, w_dir \in Compass, ts \in SampleTimes :
        /\ vb.lasttime # None => ts > vb.lasttime
        /\ vb' = VectorAddValue(vb, w_speed, w_dir, ts, vbFlags.hilo,
                                vbFlags.history, vbFlags.sum)
        /\ vbLog' = Append(vbLog, [speed |-> w_speed, dir |-> w_dir, ts |-> ts])
        /\ call' = Call("add_value", w_speed, w_dir, ts)
    /\ steps' = steps + 1
    /\ UNCHANGED <<vbFlags, scalarVars, cacheVars, bufferVars, component,
                   trendVars,
                   pubVars,
                   threadVars,
                   serviceVars>>

NextVecAvg == VaAddValue

SpecVecAvg == InitVecAvg /\ [][NextVecAvg]_vars

\* N >= 2 samples of equal magnitude and direction, uniformly spaced
UniformSamples(log) ==
    /\ Len(log) >= 2
    /\ \A i \in 1..Len(log) : log[i].speed = log[1].speed /\ log[i].dir = log[1].dir
    /\ \A i \in 2..Len(log) : log[i].ts - log[i - 1].ts = log[2].ts - log[1].ts

\* C11 as stated: for a sum-tracked VectorBuffer fed N >= 2 samples of equal
\* magnitude M, all at the same compass point D, uniformly spaced in time,
\* day_vec_avg equals M and day_vec_dir equals D.
C11_Original ==
    (component = "vecavg" /\ UniformSamples(vbLog)) =>
        /\ AvgEquals(day_vec_avg(vb), vbLog[1].speed)
        /\ day_vec_dir(vb) = vbLog[1].dir

\* C11, the part that holds: day_vec_dir equals D, the vector sum has
\* magnitude N * M and sumtime is the time between the first and the last
\* sample, so day_vec_avg is N * M / ((N - 1) * spacing).
C11_VectorSum ==
    (component = "vecavg" /\ UniformSamples(vbLog)) =>
        /\ day_vec_dir(vb) = vbLog[1].dir
        /\ vb.sumtime = vbLog[Len(vbLog)].ts - vbLog[1].ts
        /\ day_vec_avg(vb) =
               [sq_num |-> (Len(vbLog) * vbLog[1].speed) * (Len(vbLog) * vbLog[1].speed),
                sq_den |-> vb.sumtime * vb.sumtime]

\* C11 witness: two samples of speed 1 from the east (90), one second apart:
\* day_vec_dir is 90 but day_vec_avg is 2
C11_Witness ==
    /\ component = "vecavg" /\ UniformSamples(vbLog)
    /\ Len(vbLog) = 2 /\ vbLog[1].speed = 1 /\ vbLog[1].dir = 90
    /\ vbLog[2].ts - vbLog[1].ts = 1
    /\ day_vec_dir(vb) = 90
    /\ AvgEquals(day_vec_avg(vb), 2)

-----------------------------------------------------------------------------
(* SpecTrend: calc_trend called again and again with arguments and a       *)
(* history lookup drawn from small sets.                                   *)

InitTrend ==
    /\ IdleTrend /\ IdlePublish /\ IdleThread /\ IdleServices
    /\ IdleScalar /\ IdleVector /\ IdleCache /\ IdleBuffer
    /\ component = "trend"
    /\ call = NoCall
    /\ steps = 0

CalcTrend ==
    /\ component = "trend"
    /\ \E obs_type \in TrendObs, now_vt \in NowValues, units \in TrendUnits,
          then_record \in ArchiveRecords \cup {NoRecord} :
        trend' = [obs_type |-> obs_type, now_vt |-> now_vt, units |-> units,
                  then_record |-> then_record,
                  result |-> calc_trend(obs_type, now_vt, units, then_record)]
    /\ UNCHANGED <<scalarVars, vectorVars, cacheVars, bufferVars, component,
                   call, steps,
                   pubVars,
                   threadVars,
                   serviceVars>>

NextTrend == CalcTrend

SpecTrend == InitTrend /\ [][NextTrend]_vars

\* the cases in which C12 says calc_trend returns null
TrendNullCase(t) ==
    \/ t.now_vt.value = None
    \/ ~t.then_record.found
    \/ t.obs_type \notin DOMAIN t.then_record.obs

\* convert(current, units) - convert(historical, units)
TrendDifference(t) ==
    ConvertValue(t.now_vt.value, t.now_vt.unit, t.units)
        - ConvertValue(t.then_record.obs[t.obs_type],
                       StdUnit(t.then_record.usUnits, t.obs_type), t.units)

\* C12 as stated: calc_trend returns null when the current value is null,
\* when the lookup finds no record or when the observation is absent from
\* the record; otherwise it returns convert(current, units) -
\* convert(historical, units).
C12_Original ==
    (component = "trend" /\ trend # <<>>) =>
        IF TrendNullCase(trend)
        THEN trend.result = ReturnedNone
        ELSE trend.result = Returned(TrendDifference(trend))

\* C12, the part that holds: the three null cases return null; a record
\* that holds a non-null value gives the difference of the converted values;
\* a record that holds the observation with a null value raises TypeError.
C12_TrendOutcome ==
    (component = "trend" /\ trend # <<>>) =>
        IF TrendNullCase(trend)
        THEN trend.result = ReturnedNone
        ELSE IF trend.then_record.obs[trend.obs_type] = None
             THEN trend.result = Raised("TypeError")
             ELSE trend.result = Returned(TrendDifference(trend))

\* C12 witness: a current speed of 20 m/s against a record that holds
\* windSpeed with a null value: TypeError escapes
C12_Witness ==
    /\ component = "trend" /\ trend # <<>>
    /\ trend.now_vt = [value |-> 20, unit |-> "meter_per_second"]
    /\ trend.then_record.found
    /\ "windSpeed" \in DOMAIN trend.then_record.obs
    /\ trend.then_record.obs["windSpeed"] = None
    /\ trend.result = Raised("TypeError")

\* a call that returned a difference across units: 20 m/s now against a
\* record of 36 km/h, in km/h, is 72 - 36
C12_ValueWitness ==
    /\ component = "trend" /\ trend # <<>>
    /\ trend.now_vt = [value |-> 20, unit |-> "meter_per_second"]
    /\ trend.units = "km_per_hour"
    /\ trend.then_record.found /\ trend.then_record.usUnits = "METRIC"
    /\ trend.result = Returned(36)

-----------------------------------------------------------------------------
(* SpecPublish: MQTTPublish.publish called again and again, each attempt   *)
(* meeting a result chosen by the network and the broker.                  *)

\* the largest max_tries setting
MaxTries == 3
\* publish calls in one behaviour
MaxCalls == 2
\* the retry_wait settings, in half seconds
RetryWaits == {0, 1, 2}

InitPublish ==
    /\ IdlePublish /\ IdleTrend /\ IdleThread /\ IdleServices
    /\ IdleScalar /\ IdleVector /\ IdleCache /\ IdleBuffer
    /\ component = "publish"
    /\ call = NoCall
    /\ steps = 0

\* publish is called
PubCall ==
    /\ component = "publish"
    /\ IF pub = <<>> THEN TRUE ELSE pub.pc # "loop"
    /\ steps < MaxCalls
    /\ \E max_tries \in 0..MaxTries, retry_wait \in RetryWaits :
           pub' = PublishCall(max_tries, retry_wait)
    /\ steps' = steps + 1
    /\ UNCHANGED <<scalarVars, vectorVars, cacheVars, bufferVars, trendVars,
                   component, call,
                   threadVars,
                   serviceVars>>

\* the for loop takes its next pass
PubAttempt ==
    /\ component = "publish"
    /\ pub # <<>> /\ pub.pc = "loop"
    /\ Len(pub.attempts) < pub.max_tries
    /\ \E res \in AttemptResults : pub' = PublishAttempt(pub, res)
    /\ UNCHANGED <<scalarVars, vectorVars, cacheVars, bufferVars, trendVars,
                   component, call, steps,
                   threadVars,
                   serviceVars>>

\* the for loop runs out of passes
PubExhausted ==
    /\ component = "publish"
    /\ pub # <<>> /\ pub.pc = "loop"
    /\ Len(pub.attempts) >= pub.max_tries
    /\ pub' = PublishExhausted(pub)
    /\ UNCHANGED <<scalarVars, vectorVars, cacheVars, bufferVars, trendVars,
                   component, call, steps,
                   threadVars,
                   serviceVars>>

NextPublish == PubCall \/ PubAttempt \/ PubExhausted

SpecPublish == InitPublish /\ [][NextPublish]_vars

\* a publish call runs to its end once it has started
FairPublish ==
    SpecPublish /\ WF_vars(PubAttempt) /\ WF_vars(PubExhausted)

\* the attempts of p that published the data
Published(p) == {i \in 1..Len(p.attempts) : p.attempts[i] = "success"}

\* C16 as stated: publish makes at most max_tries attempts, waits
\* retry_wait between attempts, returns as soon as an attempt has published
\* the data, and raises FailedPost exactly when publication failed on all
\* max_tries attempts; a call that has ended has either published the
\* message or raised FailedPost.
C16_Original ==
    (component = "publish" /\ pub # <<>>) =>
        /\ Len(pub.attempts) <= pub.max_tries
        /\ Published(pub) \subseteq {Len(pub.attempts)}
        /\ Published(pub) # {} => pub.pc = "returned"
        /\ pub.pc = "FailedPost" <=>
               (Len(pub.attempts) = pub.max_tries /\ Published(pub) = {})
        /\ pub.pc # "loop" => (Published(pub) # {} \/ pub.pc = "FailedPost")

PublishRunning == IF pub = <<>> THEN FALSE ELSE pub.pc = "loop"
PublishEnded ==
    IF pub = <<>> THEN FALSE ELSE pub.pc \in {"returned", "FailedPost"}

\* the state of a publish call at any moment of its execution
PublishContract ==
    (component = "publish" /\ pub # <<>>) =>
        LET n == Len(pub.attempts)
            socket == {i \in 1..n : pub.attempts[i] = "socket_error"}
        IN  /\ n <= pub.max_tries
            /\ \A i \in 1..(n - 1) : i \in socket
            /\ pub.slept = Cardinality(socket) * pub.retry_wait
            /\ pub.pc = "returned" <=> (n > 0 /\ n \notin socket)
            /\ pub.pc = "FailedPost" => (n = pub.max_tries /\ socket = 1..n)
            /\ (pub.pc = "loop" /\ n = pub.max_tries) => socket = 1..n
            /\ pub.pc = "returned" =>
                   \/ Published(pub) = {n}
                   \/ (pub.attempts[n] = "mqtt_error"
                        /\ pub.logged[Len(pub.logged)] = "mqtt_error")

\* C16 as amended: publish makes at most max_tries attempts; an attempt
\* that meets a socket error is logged and followed by a wait of
\* retry_wait; the call returns at the first attempt that publishes the data
\* or that the broker answers with an error, which is logged and neither
\* retried nor raised; it raises FailedPost exactly when all max_tries
\* attempts met a socket error.  So a call that has ended has published the
\* message, logged a broker error or raised FailedPost, and every call that
\* has started ends.
C16_BoundedRetries ==
    []PublishContract /\ (PublishRunning ~> PublishEnded)

\* C16 witness: with max_tries = 3 the first attempt met a socket error and
\* the second a broker error: the call returned, nothing was published and
\* FailedPost was not raised
C16_Witness ==
    /\ component = "publish" /\ pub # <<>>
    /\ pub.max_tries = 3
    /\ pub.attempts = <<"socket_error", "mqtt_error">>
    /\ pub.pc = "returned"

\* a call that raised FailedPost after three socket errors and three waits
C16_FailedPostWitness ==
    /\ component = "publish" /\ pub # <<>>
    /\ pub.max_tries = 3 /\ pub.retry_wait = 1
    /\ pub.pc = "FailedPost" /\ pub.slept = 3

-----------------------------------------------------------------------------
(* SpecAggregator: a behaviour exercises either a ScalarBuffer or a        *)
(* VectorBuffer                                                            *)

InitAggregator == InitScalar \/ InitVector

NextAggregator == NextScalar \/ NextVector

SpecAggregator == InitAggregator /\ [][NextAggregator]_vars

-----------------------------------------------------------------------------
(* Claims about ScalarBuffer and VectorBuffer *)

IsResetState(h) ==
    h.min = None /\ h.mintime = None /\ h.max = None /\ h.maxtime = None

LogValues(log) == {log[i].value : i \in 1..Len(log)}
LogMin(log) == CHOOSE v \in LogValues(log) : \A w \in LogValues(log) : v <= w
LogMax(log) == CHOOSE v \in LogValues(log) : \A w \in LogValues(log) : v >= w
\* timestamp of the first sample, in arrival order, whose value is v
FirstTs(log, v) ==
    log[CHOOSE i \in 1..Len(log) :
            log[i].value = v /\ \A j \in 1..(i - 1) : log[j].value # v].ts

\* C1: after any sequence of non-null values added with hilo tracking to a
\* ScalarBuffer that was in the reset state (day_reset, or built without a
\* day summary), day_min and day_max are the least and greatest added value,
\* every added value lies between them, and day_mintime / day_maxtime are the
\* timestamps of the first sample in arrival order that attained the extreme.
C1_MinMaxEnvelope ==
    (component = "scalar" /\ IsResetState(sbBase) /\ sbLog # <<>>) =>
        /\ \A i \in 1..Len(sbLog) :
               sb.day_min <= sbLog[i].value /\ sbLog[i].value <= sb.day_max
        /\ sb.day_min = LogMin(sbLog)
        /\ sb.day_max = LogMax(sbLog)
        /\ sb.day_mintime = FirstTs(sbLog, LogMin(sbLog))
        /\ sb.day_maxtime = FirstTs(sbLog, LogMax(sbLog))

\* C1 witness: from the reset state three samples were added, the minimum
\* was attained by the second and again by the third at another time, and
\* the second holds day_mintime
C1_Witness ==
    /\ component = "scalar" /\ IsResetState(sbBase) /\ Len(sbLog) = 3
    /\ sbLog[1].value > sbLog[2].value
    /\ sbLog[2].value = sbLog[3].value
    /\ sbLog[2].ts # sbLog[3].ts
    /\ sb.day_min = sbLog[2].value /\ sb.day_mintime = sbLog[2].ts
    /\ sb.day_max = sbLog[1].value /\ sb.day_maxtime = sbLog[1].ts

\* C2: add_value with a null value (a null speed for a VectorBuffer) leaves
\* every field of the aggregator unchanged: in the step that performs it, and
\* for every combination of tracking flags that could have been passed in it.
C2_NullSafety ==
    [][ (call'.op = "add_value" /\ call'.val = None) =>
            /\ sb' = sb
            /\ vb' = vb
            /\ \A f \in Flags :
                   /\ ScalarAddValue(sb, None, call'.ts,
                                     f.hilo, f.history, f.sum) = sb
                   /\ VectorAddValue(vb, None, call'.dir, call'.ts,
                                     f.hilo, f.history, f.sum) = vb
      ]_vars

\* C2 witness: a null value was added to an aggregator that already holds data
C2_Witness ==
    /\ call.op = "add_value" /\ call.val = None
    /\ \/ component = "scalar" /\ sb.last # None /\ sb.history # <<>>
       \/ component = "vector" /\ vb.last # NoLast /\ vb.history # <<>>
                               /\ call.dir # None

Min2(a, b) == IF a = None THEN b ELSE IF b < a THEN b ELSE a
Max2(a, b) == IF a = None THEN b ELSE IF b > a THEN b ELSE a

\* C4: add_value with a non-null value replaces last/lasttime exactly when
\* lasttime is null or ts >= lasttime; a sample with ts < lasttime leaves
\* last and lasttime alone but is still folded into min/max and the sums;
\* lasttime never decreases in any step (adds and resets).
C4_LastMonotone ==
    [][ /\ (component = "scalar" /\ call'.op = "add_value" /\ call'.val # None) =>
            /\ IF sb.lasttime = None \/ call'.ts >= sb.lasttime
               THEN sb'.last = call'.val /\ sb'.lasttime = call'.ts
               ELSE sb'.last = sb.last /\ sb'.lasttime = sb.lasttime
            /\ sbFlags.hilo =>
                   /\ sb'.day_min = Min2(sb.day_min, call'.val)
                   /\ sb'.day_max = Max2(sb.day_max, call'.val)
            /\ sbFlags.sum =>
                   /\ sb'.day_sum = sb.day_sum + call'.val
                   /\ sb'.nineam_sum = sb.nineam_sum + call'.val
                   /\ sb'.interval_sum = sb.interval_sum + call'.val
        /\ (component = "vector" /\ call'.op = "add_value" /\ call'.val # None) =>
            /\ IF vb.lasttime = None \/ call'.ts >= vb.lasttime
               THEN /\ vb'.last = [speed |-> call'.val, dir |-> call'.dir]
                    /\ vb'.lasttime = call'.ts
               ELSE vb'.last = vb.last /\ vb'.lasttime = vb.lasttime
            /\ vbFlags.hilo =>
                   /\ vb'.day_min = Min2(vb.day_min, call'.val)
                   /\ vb'.day_max = Max2(vb.day_max, call'.val)
            /\ vbFlags.sum => vb'.day_sum = vb.day_sum + call'.val
        /\ sb.lasttime # None => sb'.lasttime >= sb.lasttime
        /\ vb.lasttime # None => vb'.lasttime >= vb.lasttime
      ]_vars

\* C4 witness: an out-of-order sample set a new minimum without becoming last
C4_Witness ==
    /\ call.op = "add_value" /\ call.val # None
    /\ \/ /\ component = "scalar" /\ sbFlags.hilo /\ sbFlags.sum
          /\ call.ts < sb.lasttime /\ sb.last # call.val
          /\ sb.day_min = call.val /\ sb.day_mintime = call.ts
       \/ /\ component = "vector"
          /\ call.ts < vb.lasttime /\ vb.last.speed # call.val
          /\ vb.day_min = call.val /\ vb.day_mintime = call.ts

HistoryWithin(h, ts) == \A i \in 1..Len(h) : ts - h[i].ts < MAX_AGE

\* C5 as stated: after any add_value with a non-null value at ts on a
\* history-tracked ScalarBuffer or VectorBuffer every retained history entry
\* is less than MAX_AGE older than ts.
C5_Original ==
    (call.op = "add_value" /\ call.val # None) =>
        /\ (component = "scalar" /\ sbFlags.history) =>
               HistoryWithin(sb.history, call.ts)
        /\ (component = "vector" /\ vbFlags.history) =>
               HistoryWithin(vb.history, call.ts)

\* C5 as amended: the same, for a ScalarBuffer, and for a VectorBuffer when
\* the sample's direction is non-null; a VectorBuffer sample with a null
\* direction neither appends to nor trims the history.
C5_HistoryTrim ==
    /\ (call.op = "add_value" /\ call.val # None) =>
        /\ (component = "scalar" /\ sbFlags.history) =>
               HistoryWithin(sb.history, call.ts)
        /\ (component = "vector" /\ vbFlags.history /\ call.dir # None) =>
               HistoryWithin(vb.history, call.ts)
    /\ \A w_speed \in Speeds, ts \in TimeStamps :
           VectorAddValue(vb, w_speed, None, ts, TRUE, TRUE, TRUE).history
               = vb.history

\* C5 witness: an add trimmed the oldest entry and kept two younger ones
C5_Witness ==
    /\ call.op = "add_value" /\ call.val # None
    /\ \/ /\ component = "scalar" /\ sbFlags.history
          /\ sb.history_full /\ Len(sb.history) = 2
       \/ /\ component = "vector" /\ call.dir # None
          /\ vb.history_full /\ Len(vb.history) = 2

-----------------------------------------------------------------------------
(* SpecCache: a CachedPacket primed from an archive record and updated     *)
(* from loop packets.  MQTTRealtimeThread.process_packet passes the        *)
(* packet's own dateTime as ts.                                            *)

\* the history variable updates after update(packet, ts): for every field the
\* packet carries non-null, the value and unit system as they arrived
RecordUpdate(u, packet, ts) ==
    LET carried == {f \in DOMAIN packet.obs : packet.obs[f] # None}
    IN  [f \in DOMAIN u \cup carried |->
            IF f \in carried
            THEN [value |-> packet.obs[f], usUnits |-> packet.usUnits, ts |-> ts]
            ELSE u[f]]

InitCache ==
    /\ \E rec \in CacheSeeds :
        /\ cache = CachedPacketInit(rec)
        /\ unit_system = CachedPacketInitUnits(rec)
    /\ updates = <<>>
    /\ IdleScalar /\ IdleVector /\ IdleBuffer
    /\ IdleTrend /\ IdlePublish /\ IdleThread /\ IdleServices
    /\ component = "cache"
    /\ call = NoCall
    /\ steps = 0

CpUpdate ==
    /\ component = "cache"
    /\ steps < MaxUpdates
    /\ \E packet \in PacketsOver(CachePacketFields, UnitSystems, TimeStamps) :
        /\ unit_system' = CacheAdoptUnits(unit_system, packet)
        /\ cache' = CacheUpdate(cache, unit_system, packet, packet.dateTime)
        /\ updates' = RecordUpdate(updates, packet, packet.dateTime)
        /\ call' = [op |-> "update", packet |-> packet, ts |-> packet.dateTime]
    /\ steps' = steps + 1
    /\ UNCHANGED <<scalarVars, vectorVars, bufferVars, component,
                   trendVars,
                   pubVars,
                   threadVars,
                   serviceVars>>

NextCache == CpUpdate

SpecCache == InitCache /\ [][NextCache]_vars

-----------------------------------------------------------------------------
(* Claims about CachedPacket *)

\* C6: for a field that some update carried non-null, get_value(obs, now,
\* max_age) returns the value stored by the most recent such update when now
\* minus the timestamp of that update is <= max_age and null when it is
\* greater, however many later updates omitted the field or carried it null.
C6_FreshnessDecay ==
    component = "cache" =>
        \A obs \in DOMAIN updates, now \in TimeStamps, max_age \in MaxAges :
            GetValue(cache, obs, now, max_age) =
                IF now - updates[obs].ts <= max_age
                THEN ConvertStd(updates[obs].value, obs, updates[obs].usUnits,
                                unit_system)
                ELSE None

\* C6 witness: windSpeed was stored at time 0, the latest update omitted it
\* or carried it null, and it is returned at age 600 under max_age 600 but
\* not under max_age 300
C6_Witness ==
    /\ component = "cache" /\ call.op = "update"
    /\ "windSpeed" \in DOMAIN updates
    /\ updates["windSpeed"].ts = 0 /\ call.ts = MAX_AGE \div 2
    /\ \/ "windSpeed" \notin DOMAIN call.packet.obs
       \/ call.packet.obs["windSpeed"] = None
    /\ GetValue(cache, "windSpeed", MAX_AGE, MAX_AGE) # None
    /\ GetValue(cache, "windSpeed", MAX_AGE, MAX_AGE \div 2) = None

\* C7: update overwrites the cached value and timestamp of a field exactly
\* when the packet carries a non-null value for it; a null or omitted field
\* keeps its cached value and timestamp (and gets no entry if it had none).
C7_UpdateFrame ==
    [][ call'.op = "update" =>
            \A f \in DOMAIN cache \cup DOMAIN cache' \cup DOMAIN call'.packet.obs :
                IF f \in DOMAIN call'.packet.obs /\ call'.packet.obs[f] # None
                THEN /\ f \in DOMAIN cache'
                     /\ cache'[f].ts = call'.ts
                     /\ cache'[f].value =
                            ConvertStd(call'.packet.obs[f], f,
                                       call'.packet.usUnits, unit_system')
                ELSE IF f \in DOMAIN cache
                     THEN f \in DOMAIN cache' /\ cache'[f] = cache[f]
                     ELSE f \notin DOMAIN cache'
      ]_vars

\* C7 witness: an update carried a null windSpeed and a windGust; the cached
\* windSpeed kept its earlier value and time while windGust was overwritten
C7_Witness ==
    /\ component = "cache" /\ call.op = "update"
    /\ DOMAIN call.packet.obs = {"windSpeed", "windGust"}
    /\ call.packet.obs["windSpeed"] = None
    /\ call.packet.obs["windGust"] # None
    /\ cache["windSpeed"].value # None
    /\ cache["windSpeed"].ts # call.ts
    /\ cache["windGust"].ts = call.ts

\* a value of a unit expressed in a common unit (metres per hour for speeds)
Quantity(v, unit) ==
    CASE unit = "km_per_hour" -> v * 1000
      [] unit = "meter_per_second" -> v * 3600
      [] OTHER -> v

StoredInUnitSystem ==
    \A f \in DOMAIN updates :
        Quantity(cache[f].value, StdUnit(unit_system, f)) =
            Quantity(updates[f].value, StdUnit(updates[f].usUnits, f))

\* C8: unit_system, once non-null, is never changed by an update, and every
\* value stored by update is the packet's value expressed in that unit
\* system (a packet in another unit system is converted first).
C8_UnitSystemFixed ==
    [][ /\ unit_system # NoUnits => unit_system' = unit_system
        /\ unit_system' # NoUnits
        /\ StoredInUnitSystem'
      ]_vars

\* C8 witness: a METRIC packet (windSpeed 36 km/h) was stored in a METRICWX
\* cache as 10 m/s
C8_Witness ==
    /\ component = "cache" /\ call.op = "update"
    /\ unit_system = "METRICWX"
    /\ call.packet.usUnits = "METRIC"
    /\ "windSpeed" \in DOMAIN call.packet.obs
    /\ call.packet.obs["windSpeed"] = 36
    /\ cache["windSpeed"] = [value |-> 10, ts |-> call.ts]

\* C9 as stated: the cache, and the record get_packet returns, hold entries
\* only for the fields of CachedPacket.OBS.
C9_Original ==
    component = "cache" =>
        /\ DOMAIN cache \subseteq OBS
        /\ \A now \in TimeStamps, max_age \in MaxAges :
               DOMAIN GetPacket(cache, unit_system, now, max_age).obs
                   \subseteq OBS

\* C9 as amended: the cache holds an entry for every field of
\* CachedPacket.OBS and for every other packet field that some update
\* carried with a non-null value, and for no other field; get_packet returns
\* a record with exactly the fields of the cache.
C9_CachedFields ==
    component = "cache" =>
        /\ DOMAIN cache = OBS \cup DOMAIN updates
        /\ \A now \in TimeStamps, max_age \in MaxAges :
               DOMAIN GetPacket(cache, unit_system, now, max_age).obs
                   = DOMAIN cache

\* C9 witness: windGust, which is not in OBS, is cached and returned
C9_Witness ==
    /\ component = "cache"
    /\ "windGust" \notin OBS
    /\ "windGust" \in DOMAIN cache
    /\ GetPacket(cache, unit_system, MAX_AGE, MAX_AGE).obs["windGust"] # None

-----------------------------------------------------------------------------
(* SpecBuffer: a Buffer seeded from a day summary and fed loop packets.    *)
(* MQTTRealtimeThread.process_packet converts every packet to METRICWX     *)
(* before it calls add_packet; a station may emit partial packets, here a  *)
(* temperature packet or a wind packet.                                    *)

BufferPackets ==
    PacketsOver({"outTemp"}, {"METRICWX"}, TimeStamps)
        \cup PacketsOver({"windSpeed", "windDir"}, {"METRICWX"}, TimeStamps)

\* the samples of the history variable after add_packet(packet): the packet's
\* non-null values as they arrived
RecordSamples(samples, packet) ==
    [obs \in DOMAIN samples |->
        IF obs \in DOMAIN packet.obs /\ packet.obs[obs] # None
        THEN Append(samples[obs],
                    [value |-> packet.obs[obs], usUnits |-> packet.usUnits,
                     ts |-> packet.dateTime])
        ELSE samples[obs]]

InitBuffer ==
    /\ \E day_stats \in DaySummaries :
        /\ buffer = BufferInit(day_stats)
        /\ primary_unit_system = day_stats.unit_system
        /\ windrun = SeedWindrun(day_stats)
        /\ bufLog = [seed |-> day_stats,
                     samples |-> [obs \in {"outTemp", "windSpeed", "windDir"}
                                     |-> <<>>],
                     prev_windSpeed |-> None]
    /\ last_windSpeed_ts = None
    /\ IdleScalar /\ IdleVector /\ IdleCache
    /\ IdleTrend /\ IdlePublish /\ IdleThread /\ IdleServices
    /\ component = "buffer"
    /\ call = NoCall
    /\ steps = 0

BufAddPacket ==
    /\ component = "buffer"
    /\ steps < MaxPackets
    /\ \E packet \in BufferPackets :
        /\ buffer' = BufferAddPacket(buffer, packet)
        /\ windrun' = WindrunAdd(windrun, last_windSpeed_ts, packet)
        /\ last_windSpeed_ts' = WindSpeedTs(last_windSpeed_ts, packet)
        /\ bufLog' = [bufLog EXCEPT
                        !.samples = RecordSamples(@, packet),
                        !.prev_windSpeed =
                            IF "windSpeed" \in DOMAIN packet.obs
                            THEN packet.obs["windSpeed"]
                            ELSE @]
        /\ call' = [op |-> "add_packet", packet |-> packet,
                    ts |-> packet.dateTime]
    /\ steps' = steps + 1
    /\ UNCHANGED <<scalarVars, vectorVars, cacheVars, primary_unit_system,
                   component,
                   trendVars,
                   pubVars,
                   threadVars,
                   serviceVars>>

NextBuffer == BufAddPacket

SpecBuffer == InitBuffer /\ [][NextBuffer]_vars

-----------------------------------------------------------------------------
(* SpecBufferReset: a Buffer that is fed loop packets and reset            *)

\* mutant of BufStartOfDayReset: the day reset restarts windrun as well
BufStartOfDayReset_Windrun ==
    /\ component = "buffer"
    /\ steps < MaxPackets
    /\ buffer' = BufferStartOfDayReset(buffer).buffer
    /\ windrun' = 0
    /\ last_windSpeed_ts' = None
    /\ call' = [op |-> "start_of_day_reset",
                raised |-> BufferStartOfDayReset(buffer).raised]
    /\ steps' = steps + 1
    /\ UNCHANGED <<scalarVars, vectorVars, cacheVars, trendVars,
                   primary_unit_system, bufLog, component,
                   pubVars,
                   threadVars,
                   serviceVars>>

BufStartOfDayReset ==
    /\ component = "buffer"
    /\ steps < MaxPackets
    /\ buffer' = BufferStartOfDayReset(buffer).buffer
    /\ call' = [op |-> "start_of_day_reset",
                raised |-> BufferStartOfDayReset(buffer).raised]
    /\ steps' = steps + 1
    /\ UNCHANGED <<scalarVars, vectorVars, cacheVars, trendVars, windrun,
                   last_windSpeed_ts, primary_unit_system, bufLog, component,
                   pubVars,
                   threadVars,
                   serviceVars>>

BufNineamReset ==
    /\ component = "buffer"
    /\ steps < MaxPackets
    /\ buffer' = BufferNineamReset(buffer).buffer
    /\ call' = [op |-> "nineam_reset",
                raised |-> BufferNineamReset(buffer).raised]
    /\ steps' = steps + 1
    /\ UNCHANGED <<scalarVars, vectorVars, cacheVars, trendVars, windrun,
                   last_windSpeed_ts, primary_unit_system, bufLog, component,
                   pubVars,
                   threadVars,
                   serviceVars>>

NextBufferReset == BufAddPacket \/ BufStartOfDayReset \/ BufNineamReset

SpecBufferReset == InitBuffer /\ [][NextBufferReset]_vars

-----------------------------------------------------------------------------
(* Claims about Buffer *)

\* the samples fed for obs, as values in the units of its aggregator
FedSamples(obs) ==
    [i \in 1..Len(bufLog.samples[obs]) |->
        ObsTuple(ConvertStd(bufLog.samples[obs][i].value, obs,
                            bufLog.samples[obs][i].usUnits, buffer[obs].units),
                 bufLog.samples[obs][i].ts)]

\* the sample with the latest timestamp (the last to arrive among equals)
LatestSample(log) ==
    log[CHOOSE i \in 1..Len(log) :
            /\ \A j \in 1..Len(log) : log[j].ts <= log[i].ts
            /\ \A j \in (i + 1)..Len(log) : log[j].ts < log[i].ts]

\* C3: a scalar aggregator seeded from a day summary and then fed
\* hilo-tracked samples through the Buffer has day_min = min(seed min, all
\* sample values) and day_max = max(seed max, all sample values), each with
\* the timestamp of the seed or sample that set it, and last is the value of
\* the latest-timestamped sample (sample values in the aggregator's units).
C3_SeededMinMaxLast ==
    component = "buffer" =>
        \A obs \in HILO_MANIFEST \cap DOMAIN bufLog.seed.stats :
            LET seed == bufLog.seed.stats[obs]
                fed == FedSamples(obs)
                minlog == (IF seed.min # None
                           THEN <<ObsTuple(seed.min, seed.mintime)>>
                           ELSE <<>>) \o fed
                maxlog == (IF seed.max # None
                           THEN <<ObsTuple(seed.max, seed.maxtime)>>
                           ELSE <<>>) \o fed
            IN  /\ buffer[obs].units = bufLog.seed.unit_system
                /\ minlog # <<>> =>
                       /\ buffer[obs].day_min = LogMin(minlog)
                       /\ buffer[obs].day_mintime = FirstTs(minlog, LogMin(minlog))
                /\ maxlog # <<>> =>
                       /\ buffer[obs].day_max = LogMax(maxlog)
                       /\ buffer[obs].day_maxtime = FirstTs(maxlog, LogMax(maxlog))
                /\ fed # <<>> =>
                       /\ buffer[obs].last = LatestSample(fed).value
                       /\ buffer[obs].lasttime = LatestSample(fed).ts
                /\ fed = <<>> => buffer[obs].last = None

\* C3 witness: windSpeed seeded in km/h with 54@300, then fed 20 m/s at 0 and
\* 10 m/s at 600: day_max = 72@0, day_min = 36@600, last = 36
C3_Witness ==
    /\ component = "buffer"
    /\ bufLog.seed.unit_system = "METRIC"
    /\ Len(bufLog.samples["windSpeed"]) = 2
    /\ buffer["windSpeed"].day_max = 72 /\ buffer["windSpeed"].day_maxtime = 0
    /\ buffer["windSpeed"].day_min = 36
    /\ buffer["windSpeed"].day_mintime = MAX_AGE
    /\ buffer["windSpeed"].last = 36 /\ buffer["windSpeed"].lasttime = MAX_AGE

\* C10 as stated: when add_wind_value receives a windSpeed sample at ts and a
\* previous windSpeed sample with speed s_prev was recorded at ts_prev,
\* windrun increases by s_prev * (ts - ts_prev) (metres, for speeds in m/s:
\* thousandths of the run's km).
C10_Original ==
    [][ ( /\ call'.op = "add_packet"
          /\ "windSpeed" \in DOMAIN call'.packet.obs
          /\ last_windSpeed_ts # None
          /\ bufLog.prev_windSpeed # None ) =>
            windrun' = windrun + bufLog.prev_windSpeed
                                    * (call'.ts - last_windSpeed_ts)
      ]_vars

\* C10 as amended: when add_wind_value receives a windSpeed sample with a
\* non-null speed s at ts and a previous windSpeed sample was recorded at
\* ts_prev, windrun increases by s * (ts - ts_prev) / 1000: the speed is that
\* of the arriving sample, and the result is km for the m/s packets that
\* process_packet supplies; last_windSpeed_ts becomes ts.
C10_WindrunAccrual ==
    [][ ( /\ call'.op = "add_packet"
          /\ "windSpeed" \in DOMAIN call'.packet.obs ) =>
            /\ ( call'.packet.obs["windSpeed"] # None
                 /\ last_windSpeed_ts # None ) =>
                   windrun' = windrun + call'.packet.obs["windSpeed"]
                                           * (call'.ts - last_windSpeed_ts)
            /\ last_windSpeed_ts' = call'.ts
      ]_vars

\* C10 witness: 10 m/s at t=0 followed by 20 m/s at t=600 added
\* 20 * 600 / 1000 = 12 km to the seeded windrun
C10_Witness ==
    /\ component = "buffer" /\ call.op = "add_packet"
    /\ Len(bufLog.samples["windSpeed"]) = 2
    /\ bufLog.samples["windSpeed"][1].value = 10
    /\ bufLog.samples["windSpeed"][1].ts = 0
    /\ bufLog.samples["windSpeed"][2].value = 20
    /\ bufLog.samples["windSpeed"][2].ts = MAX_AGE
    /\ windrun = SeedWindrun(bufLog.seed) + 20 * MAX_AGE
    /\ last_windSpeed_ts = MAX_AGE

\* the hilo fields of an aggregator are those of a reset one
DayIsReset(b) ==
    /\ b.day_min = None /\ b.day_mintime = None
    /\ b.day_max = None /\ b.day_maxtime = None

\* C19 as stated: start_of_day_reset applies day_reset to every tracked
\* observation held in the buffer and completes normally from every
\* reachable buffer state, including states in which some manifest
\* observation has never been seeded or seen in a sample.
C19_Original ==
    [][ call'.op = "start_of_day_reset" =>
            /\ call'.raised = NoException
            /\ DOMAIN buffer' = DOMAIN buffer
            /\ \A obs \in DOMAIN buffer : DayIsReset(buffer'[obs])
      ]_vars

\* C19, what the code does: start_of_day_reset completes normally, with
\* every observation reset, exactly when the buffer holds every observation
\* of the manifest; otherwise KeyError escapes at the first observation of
\* the manifest that the buffer does not hold, the ones before it having
\* been reset and the ones after it not.
C19_ResetOutcome ==
    [][ call'.op = "start_of_day_reset" =>
            LET missing == {i \in 1..Len(ManifestOrder) :
                               ManifestOrder[i] \notin DOMAIN buffer}
                first == CHOOSE i \in missing : \A j \in missing : i <= j
            IN  /\ DOMAIN buffer' = DOMAIN buffer
                /\ IF missing = {}
                   THEN /\ call'.raised = NoException
                        /\ \A obs \in DOMAIN buffer : DayIsReset(buffer'[obs])
                   ELSE /\ call'.raised = "KeyError"
                        /\ \A i \in 1..Len(ManifestOrder) :
                              ManifestOrder[i] \in DOMAIN buffer =>
                                 IF i < first
                                 THEN DayIsReset(buffer'[ManifestOrder[i]])
                                 ELSE buffer'[ManifestOrder[i]]
                                          = buffer[ManifestOrder[i]]
      ]_vars

\* C19 witness: the buffer was seeded with outTemp and windSpeed only;
\* start_of_day_reset reset both and raised KeyError at windDir
C19_Witness ==
    /\ component = "buffer" /\ call.op = "start_of_day_reset"
    /\ DOMAIN buffer = {"outTemp", "windSpeed"}
    /\ call.raised = "KeyError"
    /\ DayIsReset(buffer["outTemp"])

\* C20 as stated: nineam_reset sets nineam_sum to 0 on every sum-tracked
\* observation in the buffer, touches no observation that is not
\* sum-tracked, and changes no other field.
C20_Original ==
    [][ call'.op = "nineam_reset" =>
            /\ call'.raised = NoException
            /\ DOMAIN buffer' = DOMAIN buffer
            /\ \A obs \in DOMAIN buffer :
                  IF obs \in SUM_MANIFEST
                  THEN buffer'[obs] = [buffer[obs] EXCEPT !.nineam_sum = 0]
                  ELSE buffer'[obs] = buffer[obs]
      ]_vars

\* C20, what the code does: nineam_reset raises NameError and changes
\* nothing, whatever the buffer holds.
C20_NineamOutcome ==
    [][ call'.op = "nineam_reset" =>
            call'.raised = "NameError" /\ buffer' = buffer
      ]_vars

\* C20 witness: nineam_reset was called on a buffer that holds the
\* sum-tracked wind vector, fed one sample; NameError was raised
C20_Witness ==
    /\ component = "buffer" /\ call.op = "nineam_reset"
    /\ call.raised = "NameError"
    /\ "wind" \in DOMAIN buffer
    /\ "nineam_sum" \in buffer["wind"].attrs
    /\ buffer["wind"].last # NoLast

-----------------------------------------------------------------------------
(* class MQTTRealtime / class MQTTRealtimeThread (mqtt_dashboard.py) *)

\* the exit signal shutDown puts in the queue (None in the source)
Sentinel == [type |-> "None", payload |-> None]
\* new_loop_packet / new_archive_record / end_archive_period: the package
LoopPackage(packet) == [type |-> "loop", payload |-> packet]
ArchivePackage(ts) == [type |-> "archive", payload |-> ts]
EventPackage == [type |-> "event", payload |-> "END_ARCHIVE_PERIOD"]

\* run: "if self.queue.qsize() <= 5", the largest backlog that is processed
MaxBacklog == 5

\* mutant of BacklogExceeded: a backlog of MaxBacklog is trimmed already
BacklogExceeded_AtLimit(qsize) == qsize >= MaxBacklog

\* run: the negation of "self.queue.qsize() <= 5"
BacklogExceeded(qsize) == qsize > MaxBacklog

\* time.strftime('%w', time.localtime(ts)) for a station on UTC: the day of
\* the week, Sunday 0; 1 January 1970 was a Thursday
SecondsPerDay == 86400
EpochWeekday == 4
DayOfWeek(ts) == ((ts \div SecondsPerDay) + EpochWeekday) % 7

\* process_packet: _hour, which the source computes with '%w' as well
HourOf(ts) == DayOfWeek(ts)
NineAm == 9

\* MQTTRealtimeThread.__init__: the attributes read by run and
\* process_packet, and the position of the thread in run
ThreadInit(min_interval) ==
    [pc |-> "get",
     min_interval |-> min_interval, last_ts |-> 0,
     dow |-> None, new_day |-> FALSE, exit |-> NoException]

\* MQTTRealtimeThread.calculate: the exception it raises, if any.  It reads
\* self.buffer['outTemp'] and self.buffer['wind'] (KeyError for an
\* observation the buffer does not hold) and
\* self.buffer['wind'].day_vec_avg, which divides by sumtime
CalculateRaises(buf) ==
    IF "outTemp" \notin DOMAIN buf \/ "wind" \notin DOMAIN buf
    THEN "KeyError"
    ELSE IF buf["wind"].sumtime = 0
         THEN ZeroDivisionError.raised
         ELSE NoException

\* what self.publisher.publish ends in, as seen by process_packet: it
\* returns or it raises FailedPost
PublishOutcomes == {"returned", "FailedPost"}

\* the throttle of process_packet, time.time() being t
MinIntervalElapsed(th, t) ==
    th.min_interval = None \/ th.last_ts + th.min_interval < t

\* process_packet from the day test to add_packet, the packet having been
\* converted and cached and the day reset, if it was due, having ended in
\* day
AddConverted(th, c1, us1, packet_wx, rollover, day) ==
    LET dow == DayOfWeek(packet_wx.dateTime)
        th1 == [th EXCEPT !.new_day = IF rollover THEN TRUE ELSE @]
        th2 == [th1 EXCEPT !.dow = dow]
        nineam == th2.new_day /\ HourOf(packet_wx.dateTime) >= NineAm
        th3 == [th2 EXCEPT !.new_day = IF nineam THEN FALSE ELSE @]
    IN  IF day.raised # NoException
        THEN [thread |-> th1, cache |-> c1, unit_system |-> us1,
              buffer |-> day.buffer, added |-> FALSE, raised |-> day.raised,
              rollover |-> rollover, nineam |-> FALSE]
        ELSE IF nineam
        THEN [thread |-> th3, cache |-> c1, unit_system |-> us1,
              buffer |-> BufferNineamReset(day.buffer).buffer,
              added |-> FALSE,
              raised |-> BufferNineamReset(day.buffer).raised,
              rollover |-> rollover, nineam |-> TRUE]
        ELSE [thread |-> th3, cache |-> c1, unit_system |-> us1,
              buffer |-> BufferAddPacket(day.buffer, packet_wx),
              added |-> TRUE, raised |-> NoException,
              rollover |-> rollover, nineam |-> FALSE]

\* process_packet up to and including add_packet: the state it leaves and
\* the exception that escapes it, if any.  (Each intermediate value is
\* bound once by ranging over the set that holds just it.)
AddSample(th, c, us, buf, packet) ==
    CHOOSE a \in
        {AddConverted(th, CacheUpdate(c, us, packet_wx, packet_wx.dateTime),
                      CacheAdoptUnits(us, packet_wx), packet_wx,
                      day.rollover, day.reset) :
           packet_wx \in {ToStdSystem(packet, "METRICWX")},
           day \in {IF th.dow # None /\ th.dow # DayOfWeek(packet.dateTime)
                    THEN [rollover |-> TRUE,
                          reset |-> BufferStartOfDayReset(buf)]
                    ELSE [rollover |-> FALSE,
                          reset |-> Outcome(buf, NoException)]}} : TRUE

\* mutant of Generate: FailedPost is not caught
Generate_FailedPostEscapes(th, buf, packet, t, result) ==
    IF ~MinIntervalElapsed(th, t)
    THEN [thread |-> th, generated |-> FALSE, published |-> FALSE,
          logged |-> "skipped", raised |-> NoException]
    ELSE IF CalculateRaises(buf) # NoException
    THEN [thread |-> th, generated |-> FALSE, published |-> FALSE,
          logged |-> CalculateRaises(buf), raised |-> NoException]
    ELSE [thread |-> [th EXCEPT !.last_ts = packet.dateTime],
          generated |-> TRUE, published |-> result = "returned",
          logged |-> IF result = "returned" THEN "processed" ELSE result,
          raised |-> IF result = "returned" THEN NoException ELSE result]

\* process_packet from the throttle on, time.time() being t and the publish
\* ending in result: the packet is skipped, or the snapshot is calculated,
\* last_ts is set to the packet's dateTime and the snapshot is published.
\* FailedPost and any other exception are caught and logged here; nothing
\* is raised to run
Generate(th, buf, packet, t, result) ==
    IF ~MinIntervalElapsed(th, t)
    THEN [thread |-> th, generated |-> FALSE, published |-> FALSE,
          logged |-> "skipped", raised |-> NoException]
    ELSE IF CalculateRaises(buf) # NoException
    THEN [thread |-> th, generated |-> FALSE, published |-> FALSE,
          logged |-> CalculateRaises(buf), raised |-> NoException]
    ELSE [thread |-> [th EXCEPT !.last_ts = packet.dateTime],
          generated |-> TRUE, published |-> result = "returned",
          logged |-> IF result = "returned" THEN "processed" ELSE result,
          raised |-> NoException]

\* process_packet after add_packet, a being what AddSample left
AfterAddSample(a, packet, t, result) ==
    IF a.raised # NoException
    THEN [thread |-> a.thread, cache |-> a.cache,
          unit_system |-> a.unit_system, buffer |-> a.buffer,
          added |-> a.added, generated |-> FALSE, published |-> FALSE,
          logged |-> a.raised, raised |-> a.raised,
          rollover |-> a.rollover, nineam |-> a.nineam]
    ELSE CHOOSE p \in
            {[thread |-> g.thread, cache |-> a.cache,
              unit_system |-> a.unit_system, buffer |-> a.buffer,
              added |-> a.added, generated |-> g.generated,
              published |-> g.published, logged |-> g.logged,
              raised |-> g.raised,
              rollover |-> a.rollover, nineam |-> a.nineam] :
               g \in {Generate(a.thread, a.buffer, packet, t, result)}} : TRUE

\* MQTTRealtimeThread.process_packet
ProcessPacket(th, c, us, buf, packet, t, result) ==
    CHOOSE p \in {AfterAddSample(a, packet, t, result) :
                    a \in {AddSample(th, c, us, buf, packet)}} : TRUE

\* run: the try..except around process_packet; an exception that escapes
\* process_packet is logged and the thread returns
AfterProcessPacket(th, raised) ==
    IF raised # NoException
    THEN [th EXCEPT !.pc = "done", !.exit = raised]
    ELSE th

\* mutant of AfterGet: the sentinel is passed over like an archive package
AfterGet_SentinelIgnored(th, package) ==
    CASE package.type = "event" ->
             [th EXCEPT !.pc = "done", !.exit = "AttributeError"]
      [] OTHER -> th

\* run: what follows self.queue.get() for a package that is not a loop
\* packet.  None ends the thread; an archive package refreshes day_stats,
\* which process_packet does not read; an event package calls
\* end_archive_period, which raises AttributeError (mqtt_utility has no
\* module attribute SUM_MANIFEST) outside any try
AfterGet(th, package) ==
    CASE package.type = "None" -> [th EXCEPT !.pc = "done", !.exit = "sentinel"]
      [] package.type = "archive" -> th
      [] package.type = "event" ->
             [th EXCEPT !.pc = "done", !.exit = "AttributeError"]

-----------------------------------------------------------------------------
(* SpecThread: the MQTTRealtime service queues packages while the          *)
(* MQTTRealtimeThread consumes them.  The station emits a METRIC loop      *)
(* packet of wind speed and direction every second, around a midnight;     *)
(* the wall clock is the time of the latest loop packet.                   *)

MaxLoops == 7
MinInterval == 2
\* three seconds before the first midnight after the epoch
ClockStart == 86397

\* the loop packet the station emits at time t
StationPacket(t) ==
    [usUnits |-> "METRIC", dateTime |-> t,
     obs |-> [f \in {"windSpeed", "windDir"} |->
                 IF f = "windSpeed" THEN 36 ELSE 90]]

\* the day summaries the thread starts from: an empty one and one that
\* holds outTemp, windSpeed and wind
ThreadDaySummaries == {d \in DaySummaries : d.unit_system = "METRICWX"}

\* the last good archive record the cache is primed from
ThreadSeedRecord ==
    [present |-> {"dateTime", "usUnits", "windSpeed", "outTemp"},
     dateTime |-> ClockStart, usUnits |-> "METRICWX",
     obs |-> [f \in {"windSpeed", "outTemp"} |->
                 IF f = "windSpeed" THEN 10 ELSE 15]]

InitThread ==
    /\ \E day_stats \in ThreadDaySummaries :
        /\ buffer = BufferInit(day_stats)
        /\ primary_unit_system = day_stats.unit_system
        /\ windrun = SeedWindrun(day_stats)
    /\ last_windSpeed_ts = None
    /\ bufLog = <<>>
    /\ cache = CachedPacketInit(ThreadSeedRecord)
    /\ unit_system = CachedPacketInitUnits(ThreadSeedRecord)
    /\ updates = <<>>
    /\ queue = <<>>
    /\ clock = ClockStart
    /\ \E min_interval \in {None, MinInterval} :
        thread = ThreadInit(min_interval)
    /\ thLog = [loops |-> 0, others |-> FALSE, shutdown |-> FALSE,
                before_sentinel |-> 0, dequeued |-> 0,
                gen_at |-> None]
    /\ IdleScalar /\ IdleVector /\ IdleTrend /\ IdlePublish /\ IdleServices
    /\ component = "thread"
    /\ call = NoCall
    /\ steps = 0

\* the variables the service never touches
ThreadState == <<thread, cache, unit_system, updates, buffer, windrun,
                 last_windSpeed_ts, primary_unit_system, bufLog>>

\* MQTTRealtime.new_loop_packet
NewLoopPacket ==
    /\ component = "thread"
    /\ thLog.loops < MaxLoops
    /\ clock' = clock + 1
    /\ queue' = Append(queue, LoopPackage(StationPacket(clock')))
    /\ thLog' = [thLog EXCEPT !.loops = @ + 1]
    /\ call' = [op |-> "new_loop_packet", qsize |-> Len(queue)]
    /\ UNCHANGED <<scalarVars, vectorVars, trendVars, pubVars, ThreadState,
                   component, steps,
                   serviceVars>>

\* MQTTRealtime.new_archive_record
NewArchiveRecord ==
    /\ component = "thread"
    /\ ~thLog.others
    /\ queue' = Append(queue, ArchivePackage(clock))
    /\ thLog' = [thLog EXCEPT !.others = TRUE]
    /\ call' = [op |-> "new_archive_record", qsize |-> Len(queue)]
    /\ UNCHANGED <<scalarVars, vectorVars, trendVars, pubVars, ThreadState,
                   clock, component, steps,
                   serviceVars>>

\* MQTTRealtime.end_archive_period
EndArchivePeriod ==
    /\ component = "thread"
    /\ ~thLog.others
    /\ queue' = Append(queue, EventPackage)
    /\ thLog' = [thLog EXCEPT !.others = TRUE]
    /\ call' = [op |-> "end_archive_period", qsize |-> Len(queue)]
    /\ UNCHANGED <<scalarVars, vectorVars, trendVars, pubVars, ThreadState,
                   clock, component, steps,
                   serviceVars>>

\* MQTTRealtime.shutDown: the sentinel is queued if the thread is alive
ShutDown ==
    /\ component = "thread"
    /\ ~thLog.shutdown
    /\ thread.pc # "done"
    /\ queue' = Append(queue, Sentinel)
    /\ thLog' = [thLog EXCEPT !.shutdown = TRUE,
                              !.before_sentinel = thLog.dequeued + Len(queue)]
    /\ call' = [op |-> "shutDown", qsize |-> Len(queue)]
    /\ UNCHANGED <<scalarVars, vectorVars, trendVars, pubVars, ThreadState,
                   clock, component, steps,
                   serviceVars>>

\* run: self.queue.get() returns a package that is not a loop packet
ThGet ==
    /\ component = "thread"
    /\ thread.pc = "get"
    /\ queue # <<>>
    /\ Head(queue).type # "loop"
    /\ queue' = Tail(queue)
    /\ thread' = AfterGet(thread, Head(queue))
    /\ thLog' = [thLog EXCEPT !.dequeued = @ + 1]
    /\ call' = [op |-> "get", type |-> Head(queue).type,
                qsize |-> Len(queue')]
    /\ UNCHANGED <<scalarVars, vectorVars, trendVars, pubVars, cacheVars,
                   buffer, windrun, last_windSpeed_ts, primary_unit_system,
                   bufLog, clock, component, steps,
                   serviceVars>>

\* mutant of ThDiscard: the backlog test comes before the test of the type,
\* so a package of any type is dropped
ThDiscard_AnyType ==
    /\ component = "thread"
    /\ thread.pc = "get"
    /\ queue # <<>>
    /\ queue' = Tail(queue)
    /\ BacklogExceeded(Len(queue'))
    /\ thLog' = [thLog EXCEPT !.dequeued = @ + 1]
    /\ call' = [op |-> "discard",
                ts |-> IF Head(queue).type = "loop"
                       THEN Head(queue).payload.dateTime ELSE None,
                qsize |-> Len(queue')]
    /\ UNCHANGED <<scalarVars, vectorVars, trendVars, pubVars, cacheVars,
                   buffer, windrun, last_windSpeed_ts, primary_unit_system,
                   bufLog, thread, clock, component, steps,
                   serviceVars>>

\* run: self.queue.get() returns a loop packet, the backlog test fails and
\* the packet is dropped
ThDiscard ==
    /\ component = "thread"
    /\ thread.pc = "get"
    /\ queue # <<>>
    /\ Head(queue).type = "loop"
    /\ queue' = Tail(queue)
    /\ BacklogExceeded(Len(queue'))
    /\ thLog' = [thLog EXCEPT !.dequeued = @ + 1]
    /\ call' = [op |-> "discard", ts |-> Head(queue).payload.dateTime,
                qsize |-> Len(queue')]
    /\ UNCHANGED <<scalarVars, vectorVars, trendVars, pubVars, cacheVars,
                   buffer, windrun, last_windSpeed_ts, primary_unit_system,
                   bufLog, thread, clock, component, steps,
                   serviceVars>>

\* run: self.queue.get() returns a loop packet, the backlog test passes and
\* process_packet is called
ThProcessPacket ==
    /\ component = "thread"
    /\ thread.pc = "get"
    /\ queue # <<>>
    /\ Head(queue).type = "loop"
    /\ queue' = Tail(queue)
    /\ ~BacklogExceeded(Len(queue'))
    /\ \E result \in PublishOutcomes :
        \E packet_wx \in {ToStdSystem(Head(queue).payload, "METRICWX")},
           p \in {ProcessPacket(thread, cache, unit_system, buffer,
                                Head(queue).payload, clock, result)} :
            /\ thread' = AfterProcessPacket(p.thread, p.raised)
            /\ cache' = p.cache
            /\ unit_system' = p.unit_system
            /\ buffer' = p.buffer
            /\ windrun' = IF p.added
                          THEN WindrunAdd(windrun, last_windSpeed_ts, packet_wx)
                          ELSE windrun
            /\ last_windSpeed_ts' = IF p.added
                                    THEN WindSpeedTs(last_windSpeed_ts, packet_wx)
                                    ELSE last_windSpeed_ts
            /\ thLog' = [thLog EXCEPT
                            !.dequeued = @ + 1,
                            !.gen_at = IF p.generated THEN clock ELSE @]
            /\ call' = [op |-> "process_packet", ts |-> packet_wx.dateTime,
                        qsize |-> Len(queue'), at |-> clock,
                        since |-> IF thLog.gen_at = None THEN None
                                  ELSE clock - thLog.gen_at,
                        result |-> IF p.generated THEN result ELSE "none",
                        added |-> p.added, generated |-> p.generated,
                        published |-> p.published, logged |-> p.logged,
                        raised |-> p.raised]
    /\ UNCHANGED <<scalarVars, vectorVars, trendVars, pubVars, updates,
                   primary_unit_system, bufLog, clock, component, steps,
                   serviceVars>>

NextThread ==
    \/ NewLoopPacket
    \/ NewArchiveRecord
    \/ EndArchivePeriod
    \/ ShutDown
    \/ ThGet
    \/ ThDiscard
    \/ ThProcessPacket

SpecThread == InitThread /\ [][NextThread]_vars

\* run: self.queue.get() returns a package; every step of the thread
\* (ThGet, ThDiscard, ThProcessPacket) is such a step and no step of the
\* service is
Dequeue ==
    /\ component = "thread"
    /\ thread.pc = "get"
    /\ queue # <<>>
    /\ queue' = Tail(queue)

\* the thread is scheduled: while a package is waiting and the thread is
\* alive, queue.get() eventually returns and the step it starts ends
FairThread == SpecThread /\ WF_queue(Dequeue)

-----------------------------------------------------------------------------
(* SpecDay: process_packet called with loop packets whose times run over   *)
(* several days, at 08:00, 09:00 and 10:00 of each (the station on UTC).   *)

MaxDays == 3
MaxDayPackets == 4
SecondsPerHour == 3600
DayHours == {8, 9, 10}
DayTimes == {d * SecondsPerDay + h * SecondsPerHour : d \in 1..MaxDays, h \in DayHours}

\* the hour of the local time of ts
LocalHour(ts) == (ts % SecondsPerDay) \div SecondsPerHour

InitDay ==
    /\ \E day_stats \in ThreadDaySummaries :
        /\ buffer = BufferInit(day_stats)
        /\ primary_unit_system = day_stats.unit_system
        /\ windrun = SeedWindrun(day_stats)
    /\ last_windSpeed_ts = None
    /\ bufLog = <<>>
    /\ cache = CachedPacketInit(ThreadSeedRecord)
    /\ unit_system = CachedPacketInitUnits(ThreadSeedRecord)
    /\ updates = <<>>
    /\ queue = <<>>
    /\ clock = SecondsPerDay
    /\ thread = ThreadInit(None)
    /\ thLog = <<>>
    /\ IdleScalar /\ IdleVector /\ IdleTrend /\ IdlePublish /\ IdleServices
    /\ component = "day"
    /\ call = NoCall
    /\ steps = 0

\* run hands the next loop packet, which the station emitted at ts, to
\* process_packet
DayProcessPacket ==
    /\ component = "day"
    /\ thread.pc = "get"
    /\ steps < MaxDayPackets
    /\ \E ts \in DayTimes, result \in PublishOutcomes :
        /\ ts > clock
        /\ clock' = ts
        /\ \E packet_wx \in {ToStdSystem(StationPacket(ts), "METRICWX")},
              p \in {ProcessPacket(thread, cache, unit_system, buffer,
                                   StationPacket(ts), ts, result)} :
            /\ thread' = AfterProcessPacket(p.thread, p.raised)
            /\ cache' = p.cache
            /\ unit_system' = p.unit_system
            /\ buffer' = p.buffer
            /\ windrun' = IF p.added
                          THEN WindrunAdd(windrun, last_windSpeed_ts, packet_wx)
                          ELSE windrun
            /\ last_windSpeed_ts' = IF p.added
                                    THEN WindSpeedTs(last_windSpeed_ts, packet_wx)
                                    ELSE last_windSpeed_ts
            /\ call' = [op |-> "process_packet", ts |-> ts,
                        rollover |-> p.rollover, nineam |-> p.nineam,
                        added |-> p.added, raised |-> p.raised]
    /\ steps' = steps + 1
    /\ UNCHANGED <<scalarVars, vectorVars, trendVars, pubVars, updates,
                   primary_unit_system, bufLog, queue, thLog, component,
                   serviceVars>>

NextDay == DayProcessPacket

SpecDay == InitDay /\ [][NextDay]_vars

-----------------------------------------------------------------------------
(* Claims about MQTTRealtimeThread *)

\* the last step was a call of process_packet
Processed == component = "thread" /\ call.op = "process_packet"

\* C13 as stated: process_packet generates and publishes a snapshot only if
\* min_interval is unset or at least min_interval seconds have elapsed
\* since the previous generation, so two consecutive generations are at
\* least min_interval seconds apart; a throttled packet produces no
\* publish.
C13_Original ==
    Processed =>
        /\ (call.generated /\ thread.min_interval # None /\ call.since # None)
               => call.since >= thread.min_interval
        /\ ~call.generated => ~call.published

\* C13, what the code does: the throttle compares the wall clock with
\* last_ts, and last_ts is the dateTime of the packet of the previous
\* generation (0 before the first), not the time the generation was made.
\* A snapshot is generated exactly when min_interval is unset or
\* last_ts + min_interval < time.time(), provided that calculate does not
\* raise; a generation sets last_ts to the packet's dateTime; a packet that
\* is not generated for is not published and leaves last_ts alone.
C13_Throttle ==
    [][ call'.op = "process_packet" /\ call'.raised = NoException =>
            /\ call'.generated <=>
                   /\ \/ thread.min_interval = None
                      \/ thread.last_ts + thread.min_interval < clock
                   /\ CalculateRaises(buffer') = NoException
            /\ call'.generated => thread'.last_ts = call'.ts
            /\ ~call'.generated =>
                   ~call'.published /\ thread'.last_ts = thread.last_ts
      ]_vars

\* C13 witness: with min_interval 2 a snapshot was generated one second
\* after the previous one
C13_Witness ==
    /\ Processed /\ call.generated
    /\ thread.min_interval = MinInterval
    /\ call.since # None /\ call.since < MinInterval

\* C13 witness: a packet was throttled
C13_ThrottledWitness ==
    /\ Processed /\ ~call.generated /\ call.logged = "skipped"

\* the loop packets waiting in the queue
QueuedLoops(q) == {i \in 1..Len(q) : q[i].type = "loop"}

\* C14: a dequeued loop packet is discarded without being processed
\* whenever more than 5 items remain in the queue and is processed
\* otherwise; a discarded packet is older than every loop packet still
\* queued, so it is the older packets that are dropped; only loop packets
\* are dropped; and a producer can always queue, whatever the length of
\* the queue and whatever the thread is doing.
C14_BacklogTrim ==
    /\ [](component = "thread" =>
             /\ thLog.loops < MaxLoops => ENABLED NewLoopPacket
             /\ ~thLog.others => ENABLED NewArchiveRecord
             /\ ~thLog.others => ENABLED EndArchivePeriod)
    /\ [][ (component = "thread" /\ queue # <<>> /\ queue' = Tail(queue)) =>
              IF Head(queue).type # "loop"
              THEN call'.op = "get"
              ELSE IF Len(queue') > 5
              THEN /\ call'.op = "discard"
                   /\ call'.ts = Head(queue).payload.dateTime
                   /\ UNCHANGED <<thread, cacheVars, bufferVars>>
                   /\ \A i \in QueuedLoops(queue') :
                          queue'[i].payload.dateTime > call'.ts
              ELSE /\ call'.op = "process_packet"
                   /\ call'.ts = Head(queue).payload.dateTime
                   /\ cache' # cache
         ]_vars

\* C14 witness: the first loop packet dequeued was dropped, six packages
\* being queued behind it
C14_Witness ==
    /\ component = "thread" /\ call.op = "discard"
    /\ call.qsize = MaxBacklog + 1
    /\ thLog.dequeued = 1

\* C14 witness: a loop packet was processed with MaxBacklog packages
\* queued behind it
C14_ProcessedWitness ==
    /\ Processed /\ call.qsize = MaxBacklog
    /\ cache["windSpeed"].ts = call.ts

ThreadEnded == IF thread = <<>> THEN FALSE ELSE thread.pc = "done"
\* shutDown has queued the sentinel
ShutDownCalled == IF thLog = <<>> THEN FALSE ELSE thLog.shutdown

C15_ExceptionWitness ==
    /\ component = "thread" /\ thread.pc = "done"
    /\ thread.exit \in {"KeyError", "AttributeError"}
    /\ \E i \in 1..Len(queue) : queue[i].type = "None"

ProcessingErrors == {"KeyError", "NameError", "ZeroDivisionError"}

C18_FatalWitness ==
    /\ Processed /\ call.raised = "KeyError" /\ ~call.added
    /\ thread.pc = "done" /\ thread.exit = "KeyError"
    /\ queue # <<>>

\* C21 as stated: after process_packet has detected a day rollover,
\* nineam_reset is invoked on the first loop packet whose local time is at
\* or after 09:00, once, and not again until after the next rollover.  (No
\* reset having been made, new_day tells that one is due.)
C21_Original ==
    [][ (call'.op = "process_packet" /\ component = "day"
           /\ call'.raised = NoException) =>
            (call'.nineam <=>
                /\ thread.new_day \/ call'.rollover
                /\ LocalHour(call'.ts) >= NineAm)
      ]_vars

\* C21, what the code does: _hour is the day of the week, which is never
\* 9 or more, so nineam_reset is never invoked and new_day, once set by a
\* rollover, stays set.
C21_NeverReset ==
    [][ (call'.op = "process_packet" /\ component = "day") =>
            /\ ~call'.nineam
            /\ call'.rollover => (thread.dow # None /\ thread'.new_day)
            /\ thread.new_day => thread'.new_day
            /\ call'.raised \in {NoException, "KeyError"}
      ]_vars

\* C21 witness: a day after the rollover was detected a packet of 09:00
\* has been processed, no reset was made and one is still due
C21_Witness ==
    /\ component = "day" /\ call.op = "process_packet"
    /\ call.raised = NoException /\ ~call.rollover
    /\ LocalHour(call.ts) = NineAm
    /\ thread.new_day /\ ~call.nineam

\* the buffer after interval_reset() on every sum-tracked observation it
\* holds
IntervalIsReset(buf) ==
    [obs \in DOMAIN buf |->
        IF obs \in SUM_MANIFEST
        THEN [buf[obs] EXCEPT !.interval_sum = 0]
        ELSE buf[obs]]

\* C22 as stated: when an END_ARCHIVE_PERIOD event is dequeued,
\* interval_reset() is applied to every sum-tracked observation in the
\* buffer (interval_sum becomes 0, day_sum and nineam_sum unchanged) and
\* the loop goes on to process subsequent packages.
C22_Original ==
    [][ (call'.op = "get" /\ call'.type = "event") =>
            /\ buffer' = IntervalIsReset(buffer)
            /\ thread'.pc = "get"
      ]_vars

\* C22, what the code does: end_archive_period raises AttributeError
\* before it touches the buffer, nothing in run catches it, and the thread
\* ends; the packages behind the event are never dequeued.
C22_EventEndsThread ==
    /\ [][ (call'.op = "get" /\ call'.type = "event") =>
              /\ buffer' = buffer
              /\ thread'.pc = "done"
              /\ thread'.exit = "AttributeError"
         ]_vars
    /\ [](component = "thread" /\ thread.exit = "AttributeError" =>
             ~ENABLED Dequeue)

\* C22 witness: the event was dequeued from a buffer holding the
\* sum-tracked wind vector, the thread has ended and a loop packet is
\* left in the queue
C22_Witness ==
    /\ component = "thread" /\ call.op = "get" /\ call.type = "event"
    /\ thread.pc = "done" /\ thread.exit = "AttributeError"
    /\ "wind" \in DOMAIN buffer /\ buffer["wind"].lasttime # None
    /\ queue # <<>> /\ Head(queue).type = "loop"

\* the fields day_reset must leave alone
DayResetFrame(b) ==
    <<b.history, b.history_full, b.last, b.lasttime, b.nineam_sum,
      b.interval_sum>>

\* the step is a day_reset() of the aggregator under test
IsDayReset == call'.op = "day_reset"

\* C23 as stated: day_reset() sets day_min, day_max and their times (and
\* day_max_dir) to null, sets day_sum to 0 only when the aggregator is
\* sum-tracked (a non-sum-tracked aggregator gains no sum), and leaves
\* history, history_full, last, lasttime, nineam_sum and interval_sum
\* unchanged.
C23_Original ==
    [][ IsDayReset =>
          /\ component = "scalar" =>
                /\ HiloOf(sb') = [min |-> None, mintime |-> None,
                                  max |-> None, maxtime |-> None]
                /\ sbFlags.sum => sb'.day_sum = 0
                /\ ("day_sum" \in sb'.attrs) = ("day_sum" \in sb.attrs)
                /\ DayResetFrame(sb') = DayResetFrame(sb)
          /\ component = "vector" =>
                /\ HiloOf(vb') = [min |-> None, mintime |-> None,
                                  max |-> None, maxtime |-> None]
                /\ vb'.day_max_dir = None
                /\ vbFlags.sum => vb'.day_sum = 0
                /\ ("day_sum" \in vb'.attrs) = ("day_sum" \in vb.attrs)
                /\ DayResetFrame(vb') = DayResetFrame(vb)
      ]_vars

\* C23, what the code does: day_reset() clears the extremes and their
\* times, leaves the frame alone, and assigns day_sum = 0 on every
\* aggregator, so one built without sum tracking has a day_sum afterwards.
C23_DayReset ==
    [][ IsDayReset =>
          /\ component = "scalar" =>
                /\ HiloOf(sb') = [min |-> None, mintime |-> None,
                                  max |-> None, maxtime |-> None]
                /\ sb'.day_sum = 0 /\ "day_sum" \in sb'.attrs
                /\ sb'.attrs \ {"day_sum"} = sb.attrs \ {"day_sum"}
                /\ DayResetFrame(sb') = DayResetFrame(sb)
          /\ component = "vector" =>
                /\ HiloOf(vb') = [min |-> None, mintime |-> None,
                                  max |-> None, maxtime |-> None]
                /\ vb'.day_max_dir = None
                /\ vb'.day_sum = 0 /\ "day_sum" \in vb'.attrs
                /\ vb'.attrs \ {"day_sum"} = vb.attrs \ {"day_sum"}
                /\ DayResetFrame(vb') = DayResetFrame(vb)
      ]_vars

\* C23 witness: day_reset() has run on a ScalarBuffer built without sum
\* tracking that had taken a sample, and the buffer now has a day_sum
C23_Witness ==
    /\ component = "scalar" /\ call.op = "day_reset"
    /\ ~sbFlags.sum /\ sbFlags.history
    /\ sb.lasttime # None /\ sb.history # <<>>
    /\ "day_sum" \in sb.attrs /\ "nineam_sum" \notin sb.attrs

\* the value a sum must have after the recorded calls: its value at the
\* latest reset_op (0), or else the seed, plus every non-null value added
\* since
RECURSIVE SumSince(_, _)
SumSince(calls, reset_op) ==
    IF calls = <<>> THEN 0
    ELSE LET c == calls[Len(calls)]
             before == SubSeq(calls, 1, Len(calls) - 1)
         IN  CASE c.op = reset_op -> 0
               [] c.op = "init" -> IF reset_op = "day_reset" THEN c.val ELSE 0
               [] c.op = "add_value" /\ c.val # None ->
                      SumSince(before, reset_op) + c.val
               [] OTHER -> SumSince(before, reset_op)

\* C24: on a sum-tracked ScalarBuffer every add_value with a non-null
\* value v adds v to day_sum, nineam_sum and interval_sum whether or not
\* v changed min or max; so at any time each of the three sums equals its
\* value at its own most recent reset (or seed) plus the total of all
\* values added since.
C24_Sums ==
    (component = "sums" /\ sbFlags.sum) =>
        /\ sb.day_sum = SumSince(sbCalls, "day_reset")
        /\ sb.nineam_sum = SumSince(sbCalls, "nineam_reset")
        /\ sb.interval_sum = SumSince(sbCalls, "interval_reset")

\* C24 witness: a seeded sum-tracked buffer took a value, had its
\* nine-am sum reset, then took a value that changed neither min nor max,
\* so the three sums differ
C24_Witness ==
    /\ component = "sums" /\ sbFlags.sum /\ sbFlags.hilo
    /\ Len(sbCalls) = 4
    /\ sbCalls[1].val = 2
    /\ sbCalls[2].op = "add_value" /\ sbCalls[2].val = 1
    /\ sbCalls[3].op = "nineam_reset"
    /\ sbCalls[4].op = "add_value" /\ sbCalls[4].val = 2
    /\ sb.day_min = 1 /\ sb.day_max = 2 /\ sb.day_maxtime = 300
    /\ sb.day_sum = 5 /\ sb.nineam_sum = 2 /\ sb.interval_sum = 3

\* the history of the aggregator a SpecHistory behaviour exercises
HistoryUnderTest ==
    IF component = "scalar history" THEN sb.history ELSE vb.history

\* the step is a history_max or history_avg call
IsHistoryQuery == call'.op \in {"history_max", "history_avg"}

\* the entries of h with entry.ts >= ts - age
InWindow(h, ts, age) == {i \in 1..Len(h) : h[i].ts >= ts - age}

\* C25 as stated: history_max(ts, age) and history_avg(ts, age) consider
\* exactly the history entries with entry.ts >= ts - age and return null
\* (never an error) when no entry falls in that window, including when the
\* history is non-empty but all its entries are older than the window.
C25_Original ==
    [][ (IsHistoryQuery
         /\ InWindow(HistoryUnderTest, call'.ts, call'.age) = {}) =>
            call'.result = ReturnedNone
      ]_vars

\* C25, what the code does: history_max of both classes and
\* VectorBuffer.history_avg return null for an empty window;
\* ScalarBuffer.history_avg returns null only for an empty history and
\* raises ZeroDivisionError when the history has entries but none in the
\* window; an average that is returned is taken over exactly the entries
\* of the window.
C25_EmptyWindow ==
    [][ IsHistoryQuery =>
          LET h == HistoryUnderTest
              w == InWindow(h, call'.ts, call'.age)
          IN  /\ (w = {} /\ ~(component = "scalar history"
                               /\ call'.op = "history_avg" /\ h # <<>>)) =>
                     call'.result = ReturnedNone
              /\ (w = {} /\ component = "scalar history"
                          /\ call'.op = "history_avg" /\ h # <<>>) =>
                     call'.result = Raised("ZeroDivisionError")
              /\ (w # {} /\ call'.op = "history_avg") =>
                     /\ call'.result.kind = "value"
                     /\ call'.result.value.den = Cardinality(w)
              /\ w # {} => call'.result # ReturnedNone
      ]_vars

\* C25 witness: history_avg was asked of a ScalarBuffer whose only entry
\* is older than the window
C25_Witness ==
    /\ component = "scalar history" /\ call.op = "history_avg"
    /\ sb.history # <<>>
    /\ InWindow(sb.history, call.ts, call.age) = {}
    /\ call.result = Raised("ZeroDivisionError")

\* the step is a VectorBuffer.add_value of a speed without a direction
IsNullDirAdd ==
    /\ component = "vector" /\ call'.op = "add_value"
    /\ call'.val # None /\ call'.dir = None

\* C26: VectorBuffer.add_value with a non-null speed and a null direction
\* updates day_min/day_max (when hilo), day_sum and sumtime (when sum) and
\* last/lasttime, but leaves day_xsum, day_ysum and history unchanged.
\* The updated fields take what the same sample with a direction would
\* give them; the direction recorded with a new maximum and with last is
\* null.
C26_NullDirection ==
    [][ IsNullDirAdd =>
          /\ vb'.day_xsum = vb.day_xsum
          /\ vb'.day_ysum = vb.day_ysum
          /\ vb'.history = vb.history
          /\ vb'.history_full = vb.history_full
          /\ vb'.day_sum = vb.day_sum + call'.val
          /\ (vb.day_min = None \/ call'.val < vb.day_min) =>
                 vb'.day_min = call'.val /\ vb'.day_mintime = call'.ts
          /\ (vb.day_max = None \/ call'.val > vb.day_max) =>
                 /\ vb'.day_max = call'.val /\ vb'.day_maxtime = call'.ts
                 /\ vb'.day_max_dir = None
          /\ (vb.lasttime = None \/ call'.ts >= vb.lasttime) =>
                 /\ vb'.last = [speed |-> call'.val, dir |-> None]
                 /\ vb'.lasttime = call'.ts
          /\ \A d \in Directions :
                 LET w == VectorAddValue(vb, call'.val, d, call'.ts,
                                         vbFlags.hilo, vbFlags.history,
                                         vbFlags.sum)
                 IN  /\ HiloOf(vb') = HiloOf(w)
                     /\ vb'.day_sum = w.day_sum
                     /\ vb'.sumtime = w.sumtime
                     /\ vb'.lasttime = w.lasttime
                     /\ vb'.last.speed = w.last.speed
      ]_vars

\* C26 witness: a sample without direction set a new maximum and
\* lengthened sumtime on a buffer that holds an earlier sample with a
\* direction
C26_Witness ==
    /\ component = "vector" /\ call.op = "add_value"
    /\ call.val # None /\ call.dir = None
    /\ vb.day_max = call.val /\ vb.day_maxtime = call.ts
    /\ vb.day_max_dir = None /\ vb.last.dir = None
    /\ vb.day_min < vb.day_max
    /\ vb.history # <<>> /\ vb.day_ysum # 0
    /\ vb.sumtime = MAX_AGE \div 2

\* the step is a VectorBuffer.add_value with a non-null speed
IsSpeedAdd ==
    component = "vector" /\ call'.op = "add_value" /\ call'.val # None

\* C27 as stated: on a sum-tracked VectorBuffer the first add_value with
\* non-null speed leaves sumtime unchanged and every later one increases
\* sumtime by ts minus the timestamp of the previous sample, for every
\* timestamp value including 0; so sumtime never decreases.
C27_Original ==
    [][ IsSpeedAdd =>
          /\ vb.lasttime = None => vb'.sumtime = vb.sumtime
          /\ (call.op = "add_value" /\ call.val # None) =>
                 vb'.sumtime = vb.sumtime + (call'.ts - call.ts)
          /\ vb'.sumtime >= vb.sumtime
      ]_vars

\* C27, what the code does: sumtime grows by ts - lasttime only when
\* lasttime is neither null nor 0; lasttime is the greatest timestamp
\* seen, so a sample that follows one taken at timestamp 0 adds nothing
\* and a sample older than the latest one shortens sumtime.
C27_SumTime ==
    [][ IsSpeedAdd =>
          /\ vb'.sumtime = IF vb.lasttime # None /\ vb.lasttime # 0
                           THEN vb.sumtime + (call'.ts - vb.lasttime)
                           ELSE vb.sumtime
          /\ vb'.lasttime = IF vb.lasttime = None \/ call'.ts >= vb.lasttime
                            THEN call'.ts ELSE vb.lasttime
      ]_vars

\* C27 witness: an unseeded buffer took a sample at timestamp 0 and one
\* MAX_AGE/2 later, and sumtime is still 0
C27_Witness ==
    /\ component = "vector" /\ call.op = "add_value" /\ call.val # None
    /\ Len(vb.history) = 2
    /\ vb.history[1].ts = 0 /\ vb.history[2].ts = MAX_AGE \div 2
    /\ vb.day_sum = vb.history[1].value[1] + vb.history[2].value[1]
    /\ vb.lasttime = MAX_AGE \div 2
    /\ vb.sumtime = 0

-----------------------------------------------------------------------------
(* SpecSeed: Buffer.__init__ applied to a primary day summary and an       *)
(* additional one, which the service passes when a second binding is       *)
(* configured and leaves None otherwise.                                   *)

\* additional_day_stats = None
NoDayStats == [unit_system |-> NoUnits, stats |-> <<>>]

\* an observation outside Buffer.MANIFEST that a day summary may hold
Untracked == "extraTemp1"

\* the accumulator of obs in an additional summary; its values differ from
\* those of every primary summary
AdditionalStats(obs) ==
    IF obs = "wind"
    THEN VectorStats(20, 0, 30, 0, 600, 50, 0, 50, 600)
    ELSE AccumStats(20, 0, 30, 600, 50, 0)

\* the additional summaries tried: none, and one per unit system and per
\* set of observations
AdditionalSummaries ==
    {NoDayStats} \cup
    {[unit_system |-> us, stats |-> [obs \in S |-> AdditionalStats(obs)]] :
        us \in UnitSystems, S \in SUBSET (MANIFEST \cup {Untracked})}

\* mutant of BufferInitAdditional: the test "obs not in self" is missing
BufferInitAdditional_Replace(day_stats, additional_day_stats) ==
    [obs \in DOMAIN additional_day_stats.stats \cap MANIFEST |->
        NewAggregator(obs, additional_day_stats.stats[obs],
                      additional_day_stats.unit_system,
                      obs \in HIST_MANIFEST, obs \in SUM_MANIFEST)]
    @@ BufferInit(day_stats)

\* Buffer.__init__ with additional_day_stats: "if additional_day_stats:"
\* is false for None and for a summary without observations; an
\* observation is seeded from the additional summary only if the dict
\* does not hold it yet
BufferInitAdditional(day_stats, additional_day_stats) ==
    LET self == BufferInit(day_stats)
    IN  IF DOMAIN additional_day_stats.stats # {}
        THEN [obs \in {f \in DOMAIN additional_day_stats.stats \cap MANIFEST :
                          f \notin DOMAIN self} |->
                 NewAggregator(obs, additional_day_stats.stats[obs],
                               additional_day_stats.unit_system,
                               obs \in HIST_MANIFEST, obs \in SUM_MANIFEST)]
             @@ self
        ELSE self

\* before construction: the two day summaries have been read
InitSeed ==
    /\ \E day_stats \in DaySummaries, additional \in AdditionalSummaries :
           bufLog = [seed |-> day_stats, additional |-> additional]
    /\ buffer = <<>>
    /\ windrun = 0
    /\ last_windSpeed_ts = None
    /\ primary_unit_system = NoUnits
    /\ IdleScalar /\ IdleVector /\ IdleCache
    /\ IdleTrend /\ IdlePublish /\ IdleThread /\ IdleServices
    /\ component = "seed"
    /\ call = NoCall
    /\ steps = 0

\* Buffer(day_stats=..., additional_day_stats=...)
BufConstruct ==
    /\ component = "seed"
    /\ steps = 0
    /\ buffer' = BufferInitAdditional(bufLog.seed, bufLog.additional)
    /\ primary_unit_system' = bufLog.seed.unit_system
    /\ last_windSpeed_ts' = None
    /\ windrun' = SeedWindrun(bufLog.seed)
    /\ call' = [op |-> "Buffer"]
    /\ steps' = steps + 1
    /\ UNCHANGED <<bufLog, scalarVars, vectorVars, cacheVars, component,
                   trendVars, pubVars, threadVars,
                   serviceVars>>

NextSeed == BufConstruct

SpecSeed == InitSeed /\ [][NextSeed]_vars

\* the aggregator that seeding obs from the summary d gives
SeededFrom(d, obs) ==
    NewAggregator(obs, d.stats[obs], d.unit_system,
                  obs \in HIST_MANIFEST, obs \in SUM_MANIFEST)

\* C28: when the Buffer is constructed from a primary and an additional
\* day summary, every tracked observation present in the primary summary
\* is seeded from the primary (its min/max/sum/times and unit system), and
\* an observation is seeded from the additional summary only if it is
\* absent from the primary; a primary-seeded aggregator is never replaced.
C28_PrimaryFirst ==
    (component = "seed" /\ call.op = "Buffer") =>
        LET primary == DOMAIN bufLog.seed.stats \cap MANIFEST
            extra == DOMAIN bufLog.additional.stats \cap MANIFEST
        IN  /\ DOMAIN buffer = primary \cup extra
            /\ \A obs \in primary :
                   /\ buffer[obs] = SeededFrom(bufLog.seed, obs)
                   /\ buffer[obs].units = bufLog.seed.unit_system
            /\ \A obs \in extra \ primary :
                   buffer[obs] = SeededFrom(bufLog.additional, obs)

\* C28 witness: both summaries hold windSpeed with different figures and
\* only the additional one, in another unit system, holds windDir; the
\* buffer has the primary's windSpeed and the additional's windDir
C28_Witness ==
    /\ component = "seed" /\ call.op = "Buffer"
    /\ "windSpeed" \in DOMAIN bufLog.seed.stats
    /\ "windSpeed" \in DOMAIN bufLog.additional.stats
    /\ "windDir" \in DOMAIN bufLog.additional.stats
    /\ Untracked \in DOMAIN bufLog.additional.stats
    /\ bufLog.additional.unit_system # bufLog.seed.unit_system
    /\ buffer["windSpeed"].day_max = bufLog.seed.stats["windSpeed"].max
    /\ buffer["windSpeed"].day_max # bufLog.additional.stats["windSpeed"].max
    /\ buffer["windDir"].day_max = bufLog.additional.stats["windDir"].max
    /\ buffer["windDir"].units = bufLog.additional.unit_system

\* the exception the windrun statement of add_wind_value raises: the
\* subtraction of None, or the product of None and a number
WindrunRaised(last_ts, packet) ==
    IF packet.obs["windSpeed"] = None \/ last_ts = None
    THEN "TypeError"
    ELSE NoException

\* the exception that leaves the try statement around it
WindrunEscaped(last_ts, packet) ==
    IF WindrunRaised(last_ts, packet) = "TypeError"
    THEN NoException
    ELSE WindrunRaised(last_ts, packet)

\* the step adds a windSpeed sample that has no previous timestamp or no
\* speed
IsFirstOrNullSpeed ==
    /\ component = "buffer" /\ call'.op = "add_packet"
    /\ "windSpeed" \in DOMAIN call'.packet.obs
    /\ (last_windSpeed_ts = None \/ call'.packet.obs["windSpeed"] = None)

\* C29: when no previous windSpeed timestamp has been recorded (the first
\* windSpeed sample) or the sample's windSpeed is null, add_wind_value
\* leaves windrun unchanged and raises no error; the sample's timestamp
\* is recorded all the same.
C29_WindrunSkipped ==
    [][ IsFirstOrNullSpeed =>
          /\ windrun' = windrun
          /\ WindrunRaised(last_windSpeed_ts, call'.packet) = "TypeError"
          /\ WindrunEscaped(last_windSpeed_ts, call'.packet) = NoException
          /\ last_windSpeed_ts' = call'.ts
      ]_vars

\* C29 witness: the first windSpeed sample, with a speed and a timestamp
\* above 0, was added to a buffer with a seeded windrun, which is unchanged
C29_Witness ==
    /\ component = "buffer" /\ call.op = "add_packet"
    /\ "windSpeed" \in DOMAIN call.packet.obs
    /\ call.packet.obs["windSpeed"] # None /\ call.ts > 0
    /\ Len(bufLog.samples["windSpeed"]) = 1
    /\ steps = 1
    /\ last_windSpeed_ts = call.ts
    /\ windrun = SeedWindrun(bufLog.seed) /\ windrun > 0

\* a null windSpeed arrived after a sample had been recorded
C29_NullSpeedCase ==
    /\ component = "buffer" /\ call.op = "add_packet"
    /\ "windSpeed" \in DOMAIN call.packet.obs
    /\ call.packet.obs["windSpeed"] = None
    /\ Len(bufLog.samples["windSpeed"]) = 1
    /\ bufLog.samples["windSpeed"][1].ts < call.ts
    /\ last_windSpeed_ts = call.ts

\* the times of the extremes are null exactly when the extremes are
TimesMatchExtremes(b) ==
    /\ (b.day_mintime = None) <=> (b.day_min = None)
    /\ (b.day_maxtime = None) <=> (b.day_max = None)

\* C30: in every reachable state of a ScalarBuffer or VectorBuffer (seeded
\* from a consistent day summary or unseeded, then any sequence of
\* add_value and reset calls), day_mintime is null iff day_min is null and
\* day_maxtime is null iff day_max is null.
C30_TimesMatchExtremes ==
    /\ component = "scalar" => TimesMatchExtremes(sb)
    /\ component = "vector" => TimesMatchExtremes(vb)

\* C30 witness: a VectorBuffer that held data was reset, so that extremes
\* and times were null, and then took a sample, which set all four (the
\* component sums, which day_reset leaves alone, still hold the earlier
\* data)
C30_Witness ==
    /\ component = "vector" /\ call.op = "add_value"
    /\ vb.day_min = 2 /\ vb.day_max = 2
    /\ vb.day_mintime = call.ts /\ vb.day_maxtime = call.ts
    /\ call.ts = MAX_AGE
    /\ vb.day_sum = 2 /\ vb.day_ysum = 3

-----------------------------------------------------------------------------
(* SpecAlarm: the AlarmMulti service with two alarm expressions, handed    *)
(* archive records as time goes by.                                        *)

\* archive records handed to the service in one behaviour
MaxAlarmRecords == 3
\* the greatest number of seconds between two archive records
MaxRecordGap == 2
\* time_wait, in seconds (3600 by default)
TimeWait == 3
\* time.time() when the service is loaded
AlarmClockStart == 10

\* the i of the options expression.i of [Alarm]
AlarmKeys == {1, 2}

\* what eval(self.expression[key], None, record) comes to: a true value,
\* a false one, or NameError for a variable the record lacks
EvalOutcomes == {"true", "false", "NameError"}

\* abs()
Abs(x) == IF x < 0 THEN -x ELSE x

\* AlarmMulti.__init__: last_msg_ts[i] = 0; launched is the history
\* variable of the alarm threads started per expression
AlarmInit ==
    [last_msg_ts |-> [k \in AlarmKeys |-> 0],
     launched |-> [k \in AlarmKeys |-> <<>>]]

\* mutant of AlarmDue: one timestamp, the latest of any expression, limits
\* them all
AlarmDue_Shared(a, key, now) ==
    \A k \in AlarmKeys :
        a.last_msg_ts[k] = 0 \/ Abs(now - a.last_msg_ts[k]) >= TimeWait

\* not self.last_msg_ts[key] or abs(time.time() - self.last_msg_ts[key])
\*     >= self.time_wait
AlarmDue(a, key, now) ==
    a.last_msg_ts[key] = 0 \/ Abs(now - a.last_msg_ts[key]) >= TimeWait

\* the body of the loop of new_archive_record for one key: the thread is
\* started and the time recorded when the expression is true; NameError
\* is caught and logged
AlarmLaunches(a, key, now, outcome) ==
    AlarmDue(a, key, now) /\ outcome[key] = "true"

\* AlarmMulti.new_archive_record; the keys have separate entries, so the
\* order of self.expression.keys() does not matter
AlarmNewArchiveRecord(a, now, outcome) ==
    [last_msg_ts |->
        [k \in AlarmKeys |->
            IF AlarmLaunches(a, k, now, outcome) THEN now
            ELSE a.last_msg_ts[k]],
     launched |->
        [k \in AlarmKeys |->
            IF AlarmLaunches(a, k, now, outcome)
            THEN Append(a.launched[k], now)
            ELSE a.launched[k]]]

InitAlarm ==
    /\ alarm = AlarmInit
    /\ wu = <<>>
    /\ queue = <<>> /\ thread = <<>> /\ thLog = <<>>
    /\ clock = AlarmClockStart
    /\ IdleScalar /\ IdleVector /\ IdleCache /\ IdleBuffer
    /\ IdleTrend /\ IdlePublish
    /\ component = "alarm"
    /\ call = NoCall
    /\ steps = 0

\* the engine fires NEW_ARCHIVE_RECORD some seconds after the last one
AlNewArchiveRecord ==
    /\ component = "alarm"
    /\ steps < MaxAlarmRecords
    /\ \E gap \in 1..MaxRecordGap, outcome \in [AlarmKeys -> EvalOutcomes] :
        /\ clock' = clock + gap
        /\ alarm' = AlarmNewArchiveRecord(alarm, clock', outcome)
        /\ call' = [op |-> "new_archive_record", ts |-> clock',
                    outcome |-> outcome]
    /\ steps' = steps + 1
    /\ UNCHANGED <<wu, queue, thread, thLog, scalarVars, vectorVars,
                   cacheVars, bufferVars, trendVars, pubVars, component>>

NextAlarm == AlNewArchiveRecord

SpecAlarm == InitAlarm /\ [][NextAlarm]_vars

\* the time of the latest alarm launched for key, None if there was none
LastLaunch(a, key) ==
    IF a.launched[key] = <<>> THEN None
    ELSE a.launched[key][Len(a.launched[key])]

\* C31: for each alarm expression, an alarm thread is launched on a new
\* archive record only if no alarm has been launched for that expression
\* before or at least time_wait seconds have passed since the last one;
\* the limit is kept per expression: an expression that is true is
\* launched whenever its own limit allows, whatever the other expression
\* did, and a launch changes the timestamp of its own expression only.
C31_PerExpressionLimit ==
    /\ [](component = "alarm" =>
             \A k \in AlarmKeys :
                 \A i \in 2..Len(alarm.launched[k]) :
                     alarm.launched[k][i] - alarm.launched[k][i - 1]
                         >= TimeWait)
    /\ [][ call'.op = "new_archive_record" =>
              \A k \in AlarmKeys :
                  LET own == LastLaunch(alarm, k)
                      due == own = None \/ clock' - own >= TimeWait
                  IN  /\ (alarm'.launched[k] # alarm.launched[k]) <=>
                             (due /\ call'.outcome[k] = "true")
                      /\ alarm'.launched[k] # alarm.launched[k] =>
                             alarm'.launched[k]
                                 = Append(alarm.launched[k], clock')
                      /\ alarm'.last_msg_ts[k] =
                             IF alarm'.launched[k] # alarm.launched[k]
                             THEN clock' ELSE alarm.last_msg_ts[k]
         ]_vars

\* C31 witness: expression 1 was launched twice, time_wait apart, and
\* expression 2 was launched in between, less than time_wait before the
\* second launch of expression 1
C31_Witness ==
    /\ component = "alarm"
    /\ Len(alarm.launched[1]) = 2 /\ Len(alarm.launched[2]) = 1
    /\ alarm.launched[1][2] - alarm.launched[1][1] = TimeWait
    /\ alarm.launched[1][1] < alarm.launched[2][1]
    /\ alarm.launched[1][2] - alarm.launched[2][1] < TimeWait
    /\ alarm.launched[1][2] = clock

-----------------------------------------------------------------------------
(* SpecWU: MQTTWUThread.process_wu applied to the archive records the      *)
(* thread takes from its queue, the Weather Underground API answering,     *)
(* answering nothing, or failing.                                          *)

\* archive records processed in one behaviour
MaxWuRecords == 3
\* api_lockout_period, in seconds (60 by default)
LockoutPeriod == 2
\* the interval of each feature, in seconds (1800 by default)
FeatureInterval == 4
\* dateTime of the archive record before the first one processed
WuClockStart == 10

\* self.features, in the order of the list
Features == <<"conditions", "forecast">>

\* what data_request comes to: a response, None, or an exception
ApiOutcomes == {"response", "None", "raised"}

\* MQTTWUThread.__init__; calls is the history variable of the API calls
\* made per feature, each with its time and what came of it
WuInit ==
    [last |-> [f \in {"conditions", "forecast"} |-> None],
     last_call_ts |-> None,
     calls |-> [f \in {"conditions", "forecast"} |-> <<>>]]

\* the lockout test of process_wu
LockoutPassed(w, now) ==
    w.last_call_ts = None \/ (now + 1 - LockoutPeriod) >= w.last_call_ts

\* the interval test of process_wu
IntervalPassed(w, feature, now) ==
    w.last[feature] = None \/ (now + 1 - FeatureInterval) >= w.last[feature]

\* one pass of the loop of process_wu that got past the lockout test: the
\* call is made if the interval test allows, and last[feature] is set only
\* when the response is not None; an exception is caught and logged
FeatureCall(w, feature, now, outcome) ==
    IF IntervalPassed(w, feature, now)
    THEN [w EXCEPT !.calls[feature] =
                       Append(@, [ts |-> now, outcome |-> outcome[feature]]),
                   !.last[feature] =
                       IF outcome[feature] = "response" THEN now ELSE @]
    ELSE w

\* the loop of process_wu from the i-th feature on; the lockout test
\* breaks out of it
RECURSIVE FeatureLoop(_, _, _, _)
FeatureLoop(w, i, now, outcome) ==
    IF i > Len(Features) THEN w
    ELSE IF LockoutPassed(w, now)
         THEN FeatureLoop(FeatureCall(w, Features[i], now, outcome), i + 1,
                          now, outcome)
         ELSE w

\* max(self.last[q] for q in self.last): None sorts below every number
MaxLast(w) ==
    IF w.last["conditions"] >= w.last["forecast"]
    THEN w.last["conditions"] ELSE w.last["forecast"]

\* MQTTWUThread.process_wu
process_wu(w, now, outcome) ==
    [FeatureLoop(w, 1, now, outcome) EXCEPT
        !.last_call_ts = MaxLast(FeatureLoop(w, 1, now, outcome))]

InitWU ==
    /\ wu = WuInit
    /\ alarm = <<>>
    /\ queue = <<>> /\ thread = <<>> /\ thLog = <<>>
    /\ clock = WuClockStart
    /\ IdleScalar /\ IdleVector /\ IdleCache /\ IdleBuffer
    /\ IdleTrend /\ IdlePublish
    /\ component = "wu"
    /\ call = NoCall
    /\ steps = 0

\* the thread takes the next archive record from its queue
WuProcess ==
    /\ component = "wu"
    /\ steps < MaxWuRecords
    /\ \E gap \in 1..MaxRecordGap,
          outcome \in [{"conditions", "forecast"} -> ApiOutcomes] :
        /\ clock' = clock + gap
        /\ wu' = process_wu(wu, clock', outcome)
        /\ call' = [op |-> "process_wu", ts |-> clock', outcome |-> outcome]
    /\ steps' = steps + 1
    /\ UNCHANGED <<alarm, queue, thread, thLog, scalarVars, vectorVars,
                   cacheVars, bufferVars, trendVars, pubVars, component>>

NextWU == WuProcess

SpecWU == InitWU /\ [][NextWU]_vars

\* C32 as stated: process_wu never issues an API call for a feature less
\* than api_lockout_period seconds after the previous API call of that
\* feature, nor less than that feature's interval after its last call,
\* including when earlier calls failed or returned no response.
C32_Original ==
    component = "wu" =>
        \A f \in DOMAIN wu.calls :
            \A i \in 2..Len(wu.calls[f]) :
                /\ wu.calls[f][i].ts - wu.calls[f][i - 1].ts >= LockoutPeriod
                /\ wu.calls[f][i].ts - wu.calls[f][i - 1].ts >= FeatureInterval

\* the time of the latest call of the feature that got a response, None
\* if there was none
RECURSIVE LastAnswered(_)
LastAnswered(calls) ==
    IF calls = <<>> THEN None
    ELSE IF calls[Len(calls)].outcome = "response" THEN calls[Len(calls)].ts
    ELSE LastAnswered(SubSeq(calls, 1, Len(calls) - 1))

\* C32, what the code does: only a call that got a response is
\* remembered.  A feature is called on a record exactly when no call of
\* any feature got a response in the last api_lockout_period - 1 seconds
\* before it and no call of this feature got a response in the last
\* interval - 1 seconds; a call that failed or returned nothing is
\* repeated on the next record.
C32_AnsweredCallsLimit ==
    /\ [](component = "wu" =>
             \A f \in DOMAIN wu.calls : wu.last[f] = LastAnswered(wu.calls[f]))
    /\ [][ call'.op = "process_wu" =>
              \A f \in DOMAIN wu.calls :
                  (wu'.calls[f] # wu.calls[f]) <=>
                      /\ \A g \in DOMAIN wu.calls :
                             \/ LastAnswered(wu.calls[g]) = None
                             \/ clock' - LastAnswered(wu.calls[g])
                                    >= LockoutPeriod - 1
                      /\ \/ LastAnswered(wu.calls[f]) = None
                         \/ clock' - LastAnswered(wu.calls[f])
                                >= FeatureInterval - 1
         ]_vars

\* C32 witness: the conditions call failed on one record and was made
\* again on the next record, one second later
C32_Witness ==
    /\ component = "wu"
    /\ Len(wu.calls["conditions"]) = 2
    /\ wu.calls["conditions"][1].outcome = "raised"
    /\ wu.calls["conditions"][2].ts - wu.calls["conditions"][1].ts = 1
    /\ wu.calls["conditions"][2].ts = clock

-----------------------------------------------------------------------------
(* ScalarBuffer.history_max, checked under SpecHistory                     *)

\* the step is a ScalarBuffer.history_max call
IsScalarHistoryMax ==
    component = "scalar history" /\ call'.op = "history_max"

\* C33 as stated: ScalarBuffer.history_max(ts, age) returns the entry
\* holding the greatest value among the history entries with
\* entry.ts >= ts - age, together with the timestamp at which that value
\* was observed.
C33_Original ==
    [][ (IsScalarHistoryMax
         /\ InWindow(sb.history, call'.ts, call'.age) # {}) =>
            \E i \in InWindow(sb.history, call'.ts, call'.age) :
                /\ call'.result = Returned(sb.history[i])
                /\ \A j \in InWindow(sb.history, call'.ts, call'.age) :
                       sb.history[j].value <= sb.history[i].value
      ]_vars

\* C33, what the code does: ScalarBuffer.history_max returns no entry at
\* all.  With at least one history entry in the window the call ends in
\* NameError, the name itemgetter never being imported; with none it
\* returns null.
C33_MaxUndefined ==
    [][ IsScalarHistoryMax =>
            call'.result =
                IF InWindow(sb.history, call'.ts, call'.age) # {}
                THEN Raised("NameError") ELSE ReturnedNone
      ]_vars

\* C33 witness: history_max was asked over a window holding two entries of
\* different values, the greater one first
C33_Witness ==
    /\ component = "scalar history" /\ call.op = "history_max"
    /\ Len(sb.history) = 2
    /\ InWindow(sb.history, call.ts, call.age) = {1, 2}
    /\ sb.history[1].value > sb.history[2].value
    /\ call.result = Raised("NameError")

-----------------------------------------------------------------------------
(* history_full, checked under SpecAggregator                              *)

\* the step is an add_value that appends to the history and trims it
IsHistoryAdd ==
    /\ call'.op = "add_value" /\ call'.val # None
    /\ \/ component = "scalar" /\ sbFlags.history
       \/ component = "vector" /\ vbFlags.history /\ call'.dir # None

\* the history the step starts from, and the flag it ends with
HistoryBefore == IF component = "scalar" THEN sb.history ELSE vb.history

FlagAfter ==
    IF component = "scalar" THEN sb'.history_full ELSE vb'.history_full

\* the flag computed from the first entry only of the list that add_value
\* hands to trim_history: h with the new entry of time ts appended
FirstEntryFull(h, ts) ==
    (IF h = <<>> THEN ts ELSE Head(h).ts) <= ts - MAX_AGE

\* the entries of h are in the order of their timestamps and none is
\* younger than ts
InTimeOrder(h, ts) ==
    \A i \in 1..Len(h) :
        /\ h[i].ts <= ts
        /\ i < Len(h) => h[i].ts <= h[i + 1].ts

\* C34 as stated: the history_full flag that trim_history computes from
\* the minimum timestamp of the whole history has, after every add_value in
\* every sequence of adds, the same value as a flag computed from only the
\* oldest retained (first) history entry.
C34_Original ==
    [][ IsHistoryAdd => FlagAfter = FirstEntryFull(HistoryBefore, call'.ts)
      ]_vars

\* C34 amended: the two flags agree after every add_value whose timestamp
\* is not older than any retained entry, the retained entries being in the
\* order of their timestamps, as they are in every sequence of adds with
\* non-decreasing timestamps.
C34_OrderedAdds ==
    [][ (IsHistoryAdd /\ InTimeOrder(HistoryBefore, call'.ts)) =>
            FlagAfter = FirstEntryFull(HistoryBefore, call'.ts)
      ]_vars

\* C34 witness: adds in time order, the last one MAX_AGE after the first
\* entry, set the flag and trimmed every older entry
C34_Witness ==
    /\ component = "scalar" /\ sbFlags.history
    /\ call.op = "add_value" /\ call.val # None /\ call.ts = MAX_AGE
    /\ sb.history_full
    /\ Len(sb.history) = 1

-----------------------------------------------------------------------------
(* The day rollover of process_packet, checked under SpecDay               *)

\* the local day of ts, the station being on UTC
LocalDay(ts) == ts \div SecondsPerDay

\* the step is a call of process_packet under SpecDay
IsDayPacket == component = "day" /\ call'.op = "process_packet"

\* the buffer after a day reset that completed, the packet of the step
\* added to it
ResetThenAdded ==
    BufferAddPacket(BufferStartOfDayReset(buffer).buffer,
                    ToStdSystem(StationPacket(call'.ts), "METRICWX"))

-----------------------------------------------------------------------------
(* Archive and event packages in run, checked under SpecThread             *)

\* the step takes a package off the queue
IsDequeue == component = "thread" /\ Len(queue') < Len(queue)

\* C36: archive-record and END_ARCHIVE_PERIOD packages are handled as soon
\* as they are dequeued, in queue order, and are never discarded by backlog
\* trimming whatever the queue length; only loop packets can be dropped.
\* Every dequeue takes the head of the queue; a head of type archive or
\* event is passed to its handler in that step whatever is queued behind
\* it; a step that discards has a loop packet at the head.
C36_OnlyLoopsDropped ==
    [][ IsDequeue =>
          /\ queue' = Tail(queue)
          /\ Head(queue).type \in {"archive", "event"} =>
                 /\ call'.op = "get" /\ call'.type = Head(queue).type
                 /\ thread' = AfterGet(thread, Head(queue))
          /\ call'.op = "discard" => Head(queue).type = "loop"
      ]_vars

\* C36 witness: an archive package was dequeued and handled with more than
\* five packages queued behind it
C36_Witness ==
    /\ component = "thread"
    /\ call.op = "get" /\ call.type = "archive"
    /\ call.qsize > MaxBacklog
    /\ Len(queue) = call.qsize

-----------------------------------------------------------------------------
(* The unit system of the aggregators, checked under SpecBuffer            *)

\* C37 as stated: every aggregator in the Buffer keeps its values in
\* buffer.primary_unit_system: after seeding from the day summaries and any
\* sequence of add_packet calls, aggregator.units equals
\* primary_unit_system for every observation.
C37_Original ==
    component = "buffer" =>
        \A obs \in DOMAIN buffer : buffer[obs].units = primary_unit_system

\* C37, what the code does: an aggregator keeps the unit system it was
\* created with.  One seeded from the primary day summary has
\* primary_unit_system; one created by add_packet for an observation the
\* buffer did not hold has the usUnits of that packet, whatever
\* primary_unit_system is.
C37_UnitsOfOrigin ==
    /\ [](component = "buffer" =>
             \A obs \in DOMAIN buffer \cap DOMAIN bufLog.seed.stats :
                 buffer[obs].units = primary_unit_system)
    /\ [][ (component = "buffer" /\ call'.op = "add_packet") =>
              \A obs \in DOMAIN buffer' :
                  buffer'[obs].units =
                      IF obs \in DOMAIN buffer
                      THEN buffer[obs].units
                      ELSE call'.packet.usUnits
         ]_vars

\* C37 witness: a buffer seeded from a METRIC day summary holds the seeded
\* windSpeed in METRIC and the wind vector, created by a packet, in
\* METRICWX
C37_Witness ==
    /\ component = "buffer"
    /\ primary_unit_system = "METRIC"
    /\ "wind" \in DOMAIN buffer /\ "windSpeed" \in DOMAIN buffer
    /\ buffer["windSpeed"].units = "METRIC"
    /\ buffer["wind"].units = "METRICWX"

-----------------------------------------------------------------------------
(* day_vec_avg as calculate reads it, checked under SpecBuffer: with no    *)
(* min_interval process_packet calls calculate after every add_packet      *)

\* calculate gets as far as self.buffer['wind'].day_vec_avg
ReadsDayVecAvg ==
    /\ component = "buffer" /\ call.op = "add_packet"
    /\ {"outTemp", "wind"} \subseteq DOMAIN buffer

\* the step is an add_packet of a wind speed
IsWindAdd ==
    /\ component = "buffer" /\ call'.op = "add_packet"
    /\ "windSpeed" \in DOMAIN call'.packet.obs
    /\ call'.packet.obs["windSpeed"] # None

\* the wind vector the step adds to: the one held, or a new one
WindBefore ==
    IF "wind" \in DOMAIN buffer
    THEN buffer["wind"]
    ELSE VectorBufferInit(NoStats, call'.packet.usUnits, TRUE, TRUE)

\* C38 as stated: in every state in which calculate() reads
\* buffer['wind'].day_vec_avg, sumtime is non-zero, so the read yields a
\* value rather than a division error; in particular after the first
\* windSpeed sample added to a buffer whose wind aggregator was not seeded.
C38_Original ==
    ReadsDayVecAvg =>
        /\ buffer["wind"].sumtime # 0
        /\ day_vec_avg(buffer["wind"]) # ZeroDivisionError

\* C38, what the code does: a wind sample adds to sumtime the time since
\* the previous sample, and nothing when there is no previous sample (or
\* its time is 0).  The first sample of an unseeded wind vector therefore
\* leaves sumtime 0, and reading day_vec_avg then raises
\* ZeroDivisionError, which calculate does not guard against.
C38_SumtimeZero ==
    /\ [](ReadsDayVecAvg =>
             (CalculateRaises(buffer) = "ZeroDivisionError"
                  <=> buffer["wind"].sumtime = 0))
    /\ [][ IsWindAdd =>
              /\ buffer'["wind"].sumtime =
                     WindBefore.sumtime
                       + (IF WindBefore.lasttime \notin {None, 0}
                          THEN call'.ts - WindBefore.lasttime ELSE 0)
              /\ "wind" \notin DOMAIN buffer =>
                     day_vec_avg(buffer'["wind"]) = ZeroDivisionError
         ]_vars

\* C38 witness: the first wind sample reached a buffer that holds outTemp
\* and had no wind vector; calculate raises ZeroDivisionError
C38_Witness ==
    /\ ReadsDayVecAvg
    /\ Len(bufLog.samples["windSpeed"]) = 1
    /\ buffer["wind"].lasttime = call.ts
    /\ buffer["wind"].sumtime = 0
    /\ CalculateRaises(buffer) = "ZeroDivisionError"

-----------------------------------------------------------------------------
(* windrun and the resets, checked under SpecBufferReset                   *)

\* the step is a reset of the Buffer
IsBufferReset ==
    /\ component = "buffer"
    /\ call'.op \in {"start_of_day_reset", "nineam_reset"}

-----------------------------------------------------------------------------
(* The vector sums and day_reset, checked under SpecVector                 *)

====
